---- MODULE Spec2Model ----
(***************************************************************************)
(* Job registry and event bus of the drive-scripts web server              *)
(* (src/server/services/sse_service.py, class StreamService), driven by    *)
(* the pipeline Runners of src/server/services/*_service.py and observed   *)
(* by the two transports: the pull stream (event_generator, SSE) and the   *)
(* push-stream connections (handle_ws, WebSocket).                         *)
(*                                                                         *)
(* Everything runs on one asyncio event loop: a step of the model is the   *)
(* code a task runs between two suspension points (an await that can       *)
(* suspend, or a yield of the generator).  `await queue.put()` on an       *)
(* unbounded asyncio.Queue never suspends; `await ws.send_json()`,         *)
(* `await future`, `await queue.get()` and `await websocket.receive_json()`*)
(* can.                                                                    *)
(***************************************************************************)
EXTENDS Integers, Sequences, FiniteSets, TLC

\* ------------------------------------------------------------------ bounds
\* log/progress events one Runner publishes from its own task
MaxEvents == 1
\* wait_for_confirmation calls of one Runner (items of a compress batch)
MaxConfirms == 2
\* entries of an organize rename plan
MaxPlan == 1
\* confirmation replies the clients send in one run
MaxReplies == 2
\* archives nested one inside the other in the archive an extract job is given
MaxChain == 6
\* files in the list a compress job is given
MaxFiles == 2
\* files in the list a verify job is given
MaxVerify == 3
\* files in the tree an aggregate copy uploads
MaxTree == 3
\* bytes in one file of that tree
MaxBytes == 3
\* bytes copy_with_progress reads at a time (8 MiB in the code)
Chunk == 2
\* bytes in the file an external tool is run on
MaxInput == 3
\* polls of one external-tool run
MaxPolls == 2

\* ---------------------------------------------------------------- config
\* Config.max_nested_depth
max_nested_depth == 5

\* ------------------------------------------------------------- vocabulary
JobIds == {"j1"}
Runners == {"r1", "r2"}
WsIds == {"w1", "w2"}
Terminal == {"complete", "error", "cancelled"}

VARIABLES
    jobs,            \* StreamService.jobs: job id -> queue of events
    confirmations,   \* StreamService.confirmations: job id -> future
    ws_connections,  \* StreamService.ws_connections: job id -> list of sockets
    futures,         \* the asyncio futures created so far, by index
    runner,          \* the background Runner tasks
    tasks,           \* send_event coroutines scheduled by run_coroutine_threadsafe
    sse,             \* the pull-stream reader (one event_generator)
    sse_out,         \* events the pull stream has yielded to its client
    ws,              \* the push-stream connections (one handle_ws each)
    ws_out,          \* events each push-stream connection has been sent
    nextSeq,         \* emission counter: the number the next event gets
    nreplies,        \* confirmation replies sent so far
    disk             \* the files the Runners work on: path -> content

vars == <<jobs, confirmations, ws_connections, futures, runner, tasks,
          sse, sse_out, ws, ws_out, nextSeq, nreplies, disk>>

\* ------------------------------------------------------------ dictionaries
Put(d, k, v) == [x \in (DOMAIN d) \cup {k} |-> IF x = k THEN v ELSE d[x]]

Del(d, k) == [x \in (DOMAIN d) \ {k} |-> d[x]]

EmptyDict == [x \in {} |-> 0]

RemoveAt(s, i) == [k \in 1..(Len(s) - 1) |-> IF k < i THEN s[k] ELSE s[k + 1]]

\* list.remove(x): drops the first occurrence
ListRemove(s, x) ==
    LET i == CHOOSE k \in 1..Len(s) : s[k] = x /\ \A m \in 1..(k - 1) : s[m] # x
    IN  RemoveAt(s, i)

\* ------------------------------------------------------------------ events
Event(t, n, c) == [type |-> t, n |-> n, c |-> c]

NoEvent == Event("none", 0, 0)

\* an unknown job id answered with an ordinary event
NotFoundLog == Event("log", 0, 0)

\* the single record event_generator yields for an unknown job id
NotFound == Event("error", 0, 0)

IsTerminal(e) == e.type \in Terminal

\* --------------------------------------------------- StreamService methods
\* create_job: self.jobs[job_id] = asyncio.Queue()
create_job(js, j) == Put(js, j, <<>>)

\* a put that makes the queue it does not find
EnqueueCreate(js, j, e) ==
    Put(js, j, Append(IF j \in DOMAIN js THEN js[j] ELSE <<>>, e))

\* a put on a queue that holds the latest event only
EnqueueLatest(js, j, e) == IF j \in DOMAIN js THEN Put(js, j, <<e>>) ELSE js

\* send_event, the pull-stream half: put only when the job has a queue
Enqueue(js, j, e) == IF j \in DOMAIN js THEN Put(js, j, Append(js[j], e)) ELSE js

\* send_event, the push-stream half: the list object the for loop iterates
WsList(j) == IF j \in DOMAIN ws_connections THEN ws_connections[j] ELSE <<>>

\* one `await ws.send_json(...)` inside try/except: a broken socket raises,
\* the exception is swallowed and nothing reaches that client
SendJson(out, w, e) ==
    IF ws[w].broken THEN out ELSE [out EXCEPT ![w] = Append(@, e)]

\* the for loop has a next element: the list iterator's index is below len
HasNext(j, it) == it < Len(WsList(j))

\* wait_for_confirmation's early return
NoTransport(j) == j \notin DOMAIN jobs /\ j \notin DOMAIN ws_connections

\* confirm without its done() guard: every reply overwrites the result
SetResultAlways(fut, result) == [fut EXCEPT !.done = TRUE, !.result = result]

\* confirm: set_result only on a future that is not done
SetResult(fut, result) ==
    IF ~fut.done THEN [fut EXCEPT !.done = TRUE, !.result = result] ELSE fut

\* a wait that gives up on its own while the future is still unresolved
AwaitReturnsEarly(fut) == TRUE

\* `await future` returns once the future is done
AwaitReturns(fut) == fut.done

\* a finally clause that deletes the job whoever else is attached
CleanupAlways(js, j) == IF j \in DOMAIN js THEN Del(js, j) ELSE js

\* event_generator's finally: delete the job unless a socket is attached
Cleanup(js, j) ==
    IF j \in DOMAIN js /\ j \notin DOMAIN ws_connections THEN Del(js, j) ELSE js

\* ------------------------------------------------------------------- Init
NoReply == [answers |-> 0, result |-> FALSE]

NewFuture(j) ==
    [job |-> j, done |-> FALSE, result |-> FALSE, first |-> NoReply,
     conflict |-> FALSE, returned |-> <<>>]

IdleRunner ==
    [pc |-> "idle", job |-> "none", kind |-> "none", nev |-> 0, ncf |-> 0, keeps |-> <<>>,
     fut |-> 0, ev |-> NoEvent, it |-> 0, after |-> "none"]

Init ==
    /\ jobs = EmptyDict
    /\ confirmations = EmptyDict
    /\ ws_connections = EmptyDict
    /\ futures = <<>>
    /\ runner = [r \in Runners |-> IdleRunner]
    /\ tasks = <<>>
    /\ sse = [state |-> "idle", job |-> "none"]
    /\ sse_out = <<>>
    /\ ws = [w \in WsIds |-> [state |-> "new", broken |-> FALSE, job |-> "none"]]
    /\ ws_out = [w \in WsIds |-> <<>>]
    /\ nextSeq = 1
    /\ nreplies = 0
    /\ disk = EmptyDict

\* ---------------------------------------------------------------- Runners
\* The Runner's record once it has called send_event(e): with no socket
\* attached the call returns at once, otherwise it is suspended in the first
\* send_json of the loop.
Sending(rec, e, after) ==
    IF WsList(rec.job) = <<>>
    THEN [rec EXCEPT !.pc = after]
    ELSE [rec EXCEPT !.pc = "send", !.ev = e, !.it = 1, !.after = after]

\* first part of send_event, up to its first suspension
SendEventStart(j, e) ==
    /\ jobs' = Enqueue(jobs, j, e)
    /\ ws_out' = IF WsList(j) = <<>> THEN ws_out ELSE SendJson(ws_out, WsList(j)[1], e)

\* a start-job route: uuid4 job id, background task scheduled
StartJob(r, j, kind) ==
    /\ runner[r].pc = "idle"
    /\ \A q \in Runners : runner[q].job # j
    /\ runner' = [runner EXCEPT ![r].pc = "new", ![r].job = j, ![r].kind = kind]
    /\ UNCHANGED <<disk, jobs, confirmations, ws_connections, futures, tasks, sse,
                   sse_out, ws, ws_out, nextSeq, nreplies>>

\* first statement of every Runner: await sse_service.create_job(job_id)
RunnerCreateJob(r) ==
    /\ runner[r].pc = "new"
    /\ jobs' = create_job(jobs, runner[r].job)
    /\ runner' = [runner EXCEPT ![r].pc = "run"]
    /\ UNCHANGED <<disk, confirmations, ws_connections, futures, tasks, sse, sse_out,
                   ws, ws_out, nextSeq, nreplies>>

\* await sse_service.send_event(job_id, "log" | "progress", ...); run_analysis
\* publishes its log and progress events before its one confirmation
RunnerPublish(r, t) ==
    /\ runner[r].pc = "run"
    /\ runner[r].nev < MaxEvents
    /\ runner[r].kind = "organize" => runner[r].ncf = 0
    /\ LET e == Event(t, nextSeq, 0)
       IN  /\ SendEventStart(runner[r].job, e)
           /\ runner' = [runner EXCEPT
                  ![r] = Sending([@ EXCEPT !.nev = @ + 1], e, "run")]
    /\ nextSeq' = nextSeq + 1
    /\ UNCHANGED <<disk, confirmations, ws_connections, futures, tasks, sse, sse_out,
                   ws, nreplies>>

\* the Runner's last send_event: "complete", or "error" from its except
\* clause; run_analysis completes by itself only with an empty plan or a
\* declined one, an accepted plan is handed to _execute_rename
Accepted(r) == runner[r].keeps # <<>> /\ runner[r].keeps[Len(runner[r].keeps)]

RunnerTerminal(r, t) ==
    /\ runner[r].pc = "run"
    /\ (runner[r].kind = "organize" /\ t = "complete") => ~Accepted(r)
    /\ LET e == Event(t, nextSeq, 0)
       IN  /\ SendEventStart(runner[r].job, e)
           /\ runner' = [runner EXCEPT ![r] = Sending(@, e, "done")]
    /\ nextSeq' = nextSeq + 1
    /\ UNCHANGED <<disk, confirmations, ws_connections, futures, tasks, sse, sse_out,
                   ws, nreplies>>

\* the rest of an inline send_event: resume, fetch the next socket, send
RunnerSendStep(r) ==
    /\ runner[r].pc = "send"
    /\ HasNext(runner[r].job, runner[r].it)
    /\ ws_out' = SendJson(ws_out, WsList(runner[r].job)[runner[r].it + 1], runner[r].ev)
    /\ runner' = [runner EXCEPT ![r].it = @ + 1]
    /\ UNCHANGED <<disk, jobs, confirmations, ws_connections, futures, tasks, sse,
                   sse_out, ws, nextSeq, nreplies>>

\* resume with the iterator exhausted: send_event returns to the Runner
RunnerSendReturn(r) ==
    /\ runner[r].pc = "send"
    /\ ~HasNext(runner[r].job, runner[r].it)
    /\ runner' = [runner EXCEPT ![r].pc = runner[r].after, ![r].ev = NoEvent,
                                ![r].it = 0, ![r].after = "none"]
    /\ UNCHANGED <<disk, jobs, confirmations, ws_connections, futures, tasks, sse,
                   sse_out, ws, ws_out, nextSeq, nreplies>>

\* keep = await sse_service.wait_for_confirmation(job_id, payload)
ConfirmLimit(kind) == IF kind = "organize" THEN 1 ELSE MaxConfirms

wait_for_confirmation(r) ==
    /\ runner[r].pc = "run"
    /\ runner[r].ncf < ConfirmLimit(runner[r].kind)
    /\ LET j == runner[r].job
           f == Len(futures) + 1
           e == Event("confirm_request", nextSeq, f)
       IN  IF NoTransport(j)
           THEN /\ runner' = [runner EXCEPT ![r].ncf = @ + 1,
                                            ![r].keeps = Append(@, FALSE)]
                /\ UNCHANGED <<jobs, confirmations, futures, ws_out, nextSeq>>
           ELSE /\ futures' = Append(futures, NewFuture(j))
                /\ confirmations' = Put(confirmations, j, f)
                /\ SendEventStart(j, e)
                /\ runner' = [runner EXCEPT
                       ![r] = Sending([@ EXCEPT !.ncf = @ + 1, !.fut = f], e, "await")]
                /\ nextSeq' = nextSeq + 1
    /\ UNCHANGED <<disk, ws_connections, tasks, sse, sse_out, ws, nreplies>>

\* `return await future` and the finally clause that deletes the slot
RunnerResume(r) ==
    /\ runner[r].pc = "await"
    /\ AwaitReturns(futures[runner[r].fut])
    /\ LET j == runner[r].job
           f == runner[r].fut
       IN  /\ confirmations' = IF j \in DOMAIN confirmations
                               THEN Del(confirmations, j) ELSE confirmations
           /\ futures' = [futures EXCEPT ![f].returned = Append(@, futures[f].result)]
           /\ runner' = [runner EXCEPT ![r].pc = "run", ![r].fut = 0,
                                       ![r].keeps = Append(@, futures[f].result)]
    /\ UNCHANGED <<disk, jobs, ws_connections, tasks, sse, sse_out, ws, ws_out,
                   nextSeq, nreplies>>

\* OrganizeService._execute_rename for a plan of n entries, called on the
\* loop's own thread: per entry a "progress" and a "log" coroutine, then
\* "complete", each handed to run_coroutine_threadsafe; nothing is awaited
PlanEvents(n, first) ==
    [k \in 1..(2 * n + 1) |->
        Event(IF k = 2 * n + 1 THEN "complete" ELSE IF k % 2 = 1 THEN "progress" ELSE "log",
              first + k - 1, 0)]

execute_rename(r, n) ==
    /\ runner[r].pc = "run"
    /\ runner[r].kind = "organize"
    /\ Accepted(r)
    /\ tasks = <<>>
    /\ tasks' = [k \in 1..(2 * n + 1) |->
                    [job |-> runner[r].job, ev |-> PlanEvents(n, nextSeq)[k],
                     started |-> FALSE, it |-> 0]]
    /\ nextSeq' = nextSeq + 2 * n + 1
    /\ runner' = [runner EXCEPT ![r].pc = "done"]
    /\ UNCHANGED <<disk, jobs, confirmations, ws_connections, futures, sse, sse_out,
                   ws, ws_out, nreplies>>

\* ------------------------------------------- scheduled send_event coroutines
\* tasks start in the order they were scheduled (call_soon_threadsafe is FIFO)
FirstUnstarted(i) ==
    /\ i \in 1..Len(tasks)
    /\ ~tasks[i].started
    /\ \A k \in 1..(i - 1) : tasks[k].started

TaskStart(i) ==
    /\ FirstUnstarted(i)
    /\ SendEventStart(tasks[i].job, tasks[i].ev)
    /\ tasks' = IF WsList(tasks[i].job) = <<>>
                THEN RemoveAt(tasks, i)
                ELSE [tasks EXCEPT ![i].started = TRUE, ![i].it = 1]
    /\ UNCHANGED <<disk, confirmations, ws_connections, futures, runner, sse, sse_out,
                   ws, nextSeq, nreplies>>

TaskSendStep(i) ==
    /\ i \in 1..Len(tasks)
    /\ tasks[i].started
    /\ HasNext(tasks[i].job, tasks[i].it)
    /\ ws_out' = SendJson(ws_out, WsList(tasks[i].job)[tasks[i].it + 1], tasks[i].ev)
    /\ tasks' = [tasks EXCEPT ![i].it = @ + 1]
    /\ UNCHANGED <<disk, jobs, confirmations, ws_connections, futures, runner, sse,
                   sse_out, ws, nextSeq, nreplies>>

TaskSendReturn(i) ==
    /\ i \in 1..Len(tasks)
    /\ tasks[i].started
    /\ ~HasNext(tasks[i].job, tasks[i].it)
    /\ tasks' = RemoveAt(tasks, i)
    /\ UNCHANGED <<disk, jobs, confirmations, ws_connections, futures, runner, sse,
                   sse_out, ws, ws_out, nextSeq, nreplies>>

\* -------------------------------------------- push-stream connections
\* handle_ws up to its receive loop: accept, then append to the job's list
WsAttach(w, j) ==
    /\ ws[w].state = "new"
    /\ \E r \in Runners : runner[r].job = j
    /\ w = "w2" => ws["w1"].state # "new"
    /\ ws' = [ws EXCEPT ![w].state = "attached", ![w].job = j]
    /\ ws_connections' = Put(ws_connections, j, Append(WsList(j), w))
    /\ UNCHANGED <<disk, jobs, confirmations, futures, runner, tasks, sse, sse_out,
                   ws_out, nextSeq, nreplies>>

\* the client goes away: from now on send_json to this socket raises, and
\* receive_json will raise WebSocketDisconnect in handle_ws
WsBreak(w) ==
    /\ ws[w].state = "attached"
    /\ ~ws[w].broken
    /\ ws' = [ws EXCEPT ![w].broken = TRUE]
    /\ UNCHANGED <<disk, jobs, confirmations, ws_connections, futures, runner, tasks,
                   sse, sse_out, ws_out, nextSeq, nreplies>>

\* A send_event loop iterates the list object it read from the dict.  Once
\* the last socket is removed that (empty) object is deleted from the dict,
\* so a loop suspended on it ends when it resumes, whatever is attached later.
LoopsEnd(rs, j) ==
    [r \in Runners |->
        IF rs[r].pc = "send" /\ rs[r].job = j
        THEN [rs[r] EXCEPT !.pc = rs[r].after, !.ev = NoEvent, !.it = 0, !.after = "none"]
        ELSE rs[r]]

RECURSIVE Unfinished(_, _)
Unfinished(ts, j) ==
    IF ts = <<>> THEN <<>>
    ELSE IF Head(ts).started /\ Head(ts).job = j
         THEN Unfinished(Tail(ts), j)
         ELSE <<Head(ts)>> \o Unfinished(Tail(ts), j)

\* handle_ws's finally clause after WebSocketDisconnect
WsDetach(w) ==
    /\ ws[w].state = "attached"
    /\ ws[w].broken
    /\ LET j == ws[w].job
           rest == ListRemove(ws_connections[j], w)
       IN  IF rest = <<>>
           THEN /\ ws_connections' = Del(ws_connections, j)
                /\ runner' = LoopsEnd(runner, j)
                /\ tasks' = Unfinished(tasks, j)
           ELSE /\ ws_connections' = Put(ws_connections, j, rest)
                /\ UNCHANGED <<runner, tasks>>
    /\ ws' = [ws EXCEPT ![w].state = "closed"]
    /\ UNCHANGED <<disk, jobs, confirmations, futures, sse, sse_out, ws_out, nextSeq,
                   nreplies>>

\* ----------------------------------------------------------- pull stream
\* event_generator up to its first suspension
StreamOpen(j) ==
    /\ sse.state = "idle"
    /\ \E r \in Runners : runner[r].job = j
    /\ IF j \notin DOMAIN jobs
       THEN /\ sse_out' = <<NotFound>>
            /\ sse' = [state |-> "closed", job |-> j]
       ELSE /\ sse_out' = sse_out
            /\ sse' = [state |-> "open", job |-> j]
    /\ UNCHANGED <<disk, jobs, confirmations, ws_connections, futures, runner, tasks,
                   ws, ws_out, nextSeq, nreplies>>

\* event = await self.jobs[job_id].get(); yield event
StreamNext ==
    /\ sse.state = "open"
    /\ sse.job \in DOMAIN jobs
    /\ jobs[sse.job] # <<>>
    /\ LET e == Head(jobs[sse.job])
       IN  /\ jobs' = Put(jobs, sse.job, Tail(jobs[sse.job]))
           /\ sse_out' = Append(sse_out, e)
           /\ sse' = [sse EXCEPT !.state = IF IsTerminal(e) THEN "closing" ELSE "open"]
    /\ UNCHANGED <<disk, confirmations, ws_connections, futures, runner, tasks, ws,
                   ws_out, nextSeq, nreplies>>

\* resumed after yielding a terminal event: break, then the finally clause
StreamClose ==
    /\ sse.state = "closing"
    /\ jobs' = Cleanup(jobs, sse.job)
    /\ sse' = [sse EXCEPT !.state = "closed"]
    /\ UNCHANGED <<disk, confirmations, ws_connections, futures, runner, tasks,
                   sse_out, ws, ws_out, nextSeq, nreplies>>

\* the client closes the stream early: the generator is closed at its
\* suspension point and only the finally clause runs
StreamAbort ==
    /\ sse.state = "open"
    /\ jobs' = Cleanup(jobs, sse.job)
    /\ sse' = [sse EXCEPT !.state = "closed"]
    /\ UNCHANGED <<disk, confirmations, ws_connections, futures, runner, tasks,
                   sse_out, ws, ws_out, nextSeq, nreplies>>

\* ------------------------------------------------- confirmation replies
\* the confirm_requests a client has been shown on a transport
Seen(out) == {out[i].c : i \in 1..Len(out)} \ {0}

SeenAnywhere == Seen(sse_out) \cup UNION {Seen(ws_out[w]) : w \in WsIds}

\* What the model remembers of the replies that reach a future while it is
\* in the slot: the first one (the confirm_request it answers, its result),
\* and whether a later one carried another result.  The code sees none of it.
Reached(fut, c, result) ==
    IF fut.first = NoReply
    THEN [fut EXCEPT !.first = [answers |-> c, result |-> result]]
    ELSE [fut EXCEPT !.conflict = @ \/ (result # fut.first.result)]

\* StreamService.confirm(job_id, result); c names the confirm_request the
\* client is answering
confirm(fs, j, result, c) ==
    IF j \in DOMAIN confirmations
    THEN [fs EXCEPT ![confirmations[j]] = SetResult(Reached(@, c, result), result)]
    ELSE fs

\* a reply's JSON payload: the result field, when the client sent one
Payload(result) == [has |-> TRUE, value |-> result]

\* the route hands confirm the validated field of its body
\* (request.keep, request.apply)
RouteResult(body) == body.value

\* a handler that declines whatever the message says
WsResultDefault(msg) == FALSE

\* handle_ws hands confirm data.get("result", False)
WsResult(msg) == IF msg.has THEN msg.value ELSE FALSE

\* POST /{job_id}/confirm
HttpConfirm(c, result) ==
    /\ nreplies < MaxReplies
    /\ c \in SeenAnywhere
    /\ futures' = confirm(futures, futures[c].job, RouteResult(Payload(result)), c)
    /\ nreplies' = nreplies + 1
    /\ UNCHANGED <<disk, jobs, confirmations, ws_connections, runner, tasks, sse,
                   sse_out, ws, ws_out, nextSeq>>

\* handle_ws's receive loop: {"type": "confirm", "result": ...}
WsConfirm(w, c, result) ==
    /\ nreplies < MaxReplies
    /\ ws[w].state = "attached"
    /\ ~ws[w].broken
    /\ c \in Seen(ws_out[w])
    /\ futures' = confirm(futures, ws[w].job, WsResult(Payload(result)), c)
    /\ nreplies' = nreplies + 1
    /\ UNCHANGED <<disk, jobs, confirmations, ws_connections, runner, tasks, sse,
                   sse_out, ws, ws_out, nextSeq>>

\* ------------------------------------------------------------------- Next
RunnerNext(r) ==
    \/ RunnerCreateJob(r)
    \/ RunnerPublish(r, "log")
    \/ \E t \in {"complete", "error"} : RunnerTerminal(r, t)
    \/ RunnerSendReturn(r)
    \/ wait_for_confirmation(r)
    \/ RunnerResume(r)

TaskNext ==
    \E i \in 1..Len(tasks) : TaskStart(i) \/ TaskSendStep(i) \/ TaskSendReturn(i)

StreamerNext ==
    \/ \E j \in JobIds : StreamOpen(j)
    \/ StreamNext
    \/ StreamClose
    \/ StreamAbort

SocketNext(w) ==
    \/ \E j \in JobIds : WsAttach(w, j)
    \/ WsBreak(w)
    \/ WsDetach(w)
    \/ \E c \in 1..Len(futures), b \in BOOLEAN : WsConfirm(w, c, b)

HttpNext == \E c \in 1..Len(futures), b \in BOOLEAN : HttpConfirm(c, b)

\* a compress job watched through the pull stream and one push-stream
\* connection (a send_event loop over one socket has no second iteration)
Next ==
    \/ \E j \in JobIds : StartJob("r1", j, "compress")
    \/ RunnerNext("r1")
    \/ StreamerNext
    \/ SocketNext("w1")
    \/ HttpNext

Spec == Init /\ [][Next]_vars

\* an organize job watched through the pull stream and two push-stream
\* connections
NextPush ==
    \/ \E j \in JobIds : StartJob("r1", j, "organize")
    \/ RunnerNext("r1")
    \/ RunnerSendStep("r1")
    \/ \E n \in 1..MaxPlan : execute_rename("r1", n)
    \/ TaskNext
    \/ StreamerNext
    \/ \E w \in WsIds : SocketNext(w)
    \/ HttpNext

SpecPush == Init /\ [][NextPush]_vars

\* the same compress job under the event loop's scheduling: a task that is
\* ready to run is run (the Runner, the generator with an event to yield,
\* the handler of a socket that has disconnected); nothing makes a client
\* open a stream, attach or reply
FairSpec ==
    /\ Spec
    /\ WF_vars(RunnerNext("r1"))
    /\ WF_vars(StreamNext \/ StreamClose)
    /\ WF_vars(WsDetach("w1"))

\* start_demo draws its id from 8 hex digits of a uuid: a second job can be
\* started under an id that is still live
StartDuplicate(r, j) ==
    /\ runner[r].pc = "idle"
    /\ \E q \in Runners : q # r /\ runner[q].job = j
    /\ runner' = [runner EXCEPT ![r].pc = "new", ![r].job = j, ![r].kind = "demo"]
    /\ UNCHANGED <<disk, jobs, confirmations, ws_connections, futures, tasks, sse,
                   sse_out, ws, ws_out, nextSeq, nreplies>>

\* two demo jobs under one id, watched through the pull stream
NextDup ==
    \/ \E j \in JobIds : StartJob("r1", j, "demo")
    \/ \E j \in JobIds : StartDuplicate("r2", j)
    \/ \E r \in Runners : RunnerCreateJob(r)
    \/ \E r \in Runners : RunnerPublish(r, "progress")
    \/ \E r \in Runners : RunnerTerminal(r, "complete")
    \/ StreamerNext

SpecDup == Init /\ [][NextDup]_vars

\* ----------------------------------------------------------------- views
Transports == {"sse"} \cup WsIds

Out(t) == IF t = "sse" THEN sse_out ELSE ws_out[t]

\* the transport is attached to job j and its client is there
Attached(t, j) ==
    IF t = "sse"
    THEN sse.state = "open" /\ sse.job = j
    ELSE ws[t].state = "attached" /\ ws[t].job = j

Healthy(t) == t = "sse" \/ ~ws[t].broken

TransportAttached(j) == \E t \in Transports : Attached(t, j)

Pending(j) == j \in DOMAIN confirmations /\ ~futures[confirmations[j]].done

Live(j) == {f \in 1..Len(futures) : futures[f].job = j /\ ~futures[f].done}

\* nothing published is still waiting in the queue the transport reads
Drained(t) == t = "sse" => (sse.job \in DOMAIN jobs => jobs[sse.job] = <<>>)

\* every send_event of the job has returned
Quiet == tasks = <<>> /\ \A r \in Runners : runner[r].pc \in {"idle", "done"}

Numbers(out) == {out[i].n : i \in 1..Len(out)}

\* events whose send_event has not returned yet
InFlight ==
    {tasks[i].ev.n : i \in 1..Len(tasks)}
        \cup {runner[r].ev.n : r \in {q \in Runners : runner[q].pc = "send"}}

\* ------------------------------------------------------------------ claims
\* C1: on every transport of a job the delivered events end with exactly one
\* terminal event (complete, error, cancelled): nothing is delivered after a
\* terminal event, and once every send_event of the job has returned and the
\* queue is drained, a transport that is still attached and was delivered
\* events has a terminal event last.
C1_TerminalLast ==
    \A t \in Transports :
        /\ \A i \in 1..(Len(Out(t)) - 1) : ~IsTerminal(Out(t)[i])
        /\ (Quiet /\ Drained(t) /\ Out(t) # <<>> /\ Healthy(t)
               /\ \E j \in JobIds : Attached(t, j))
               => IsTerminal(Out(t)[Len(Out(t))])

\* C2: the first reply that reaches a pending confirmation decides it: the
\* future's result is that reply's result whatever replies follow, and the
\* Runner resumes at most once per confirmation, with that result.
C2_FirstReplyWins ==
    \A f \in 1..Len(futures) :
        /\ Len(futures[f].returned) <= 1
        /\ futures[f].done =>
               futures[f].first # NoReply /\ futures[f].result = futures[f].first.result
        /\ futures[f].returned # <<>> =>
               futures[f].done /\ futures[f].returned[1] = futures[f].first.result

\* two replies with different results reached one confirmation and the
\* Runner has resumed from it
C2_Witness ==
    \E f \in 1..Len(futures) : futures[f].conflict /\ futures[f].returned # <<>>

\* C3: wait_for_confirmation called while no transport is attached to the
\* job (no pull-stream reader, no push-stream connection) returns False at
\* once, without suspending the Runner.
C3_NoTransportDeclines ==
    [][\A r \in Runners :
          (runner[r].pc = "run" /\ runner'[r].ncf = runner[r].ncf + 1
             /\ ~TransportAttached(runner[r].job))
          => (runner'[r].pc = "run" /\ runner'[r].keeps = Append(runner[r].keeps, FALSE))]_vars

\* C4: when the last transport of a job goes away while a confirmation of
\* the job is pending, the confirmation is resolved to declined in that step.
C4_LastDetachDeclines ==
    [][\A j \in JobIds :
          (Pending(j) /\ TransportAttached(j) /\ ~TransportAttached(j)')
          => (futures'[confirmations[j]].done /\ ~futures'[confirmations[j]].result)]_vars

\* C5: the wait for a confirmation is bounded: a Runner waiting for a
\* confirmation while a transport is attached leaves the wait, reply or no
\* reply, unless the transports all go away first.
C5_BoundedWait ==
    \A r \in Runners :
        (runner[r].pc = "await" /\ TransportAttached(runner[r].job))
            ~> (runner[r].pc # "await" \/ ~TransportAttached(runner[r].job))

\* C6: a reply never decides a confirmation other than the one it answers:
\* a duplicate or late reply to an earlier confirm_request is ignored.
C6_LateReplyIgnored ==
    \A f \in 1..Len(futures) : futures[f].done => futures[f].first.answers = f

\* C7: every transport is delivered the events of a job in emission order.
C7_EmissionOrder ==
    \A t \in Transports :
        \A i, k \in 1..Len(Out(t)) : i < k => Out(t)[i].n < Out(t)[k].n

\* C8: a job never has two unresolved confirmations.
C8_OneLiveConfirmation == \A j \in JobIds : Cardinality(Live(j)) <= 1

\* the Runner waits for its second confirmation
C8_Witness ==
    \E r \in Runners :
        runner[r].pc = "await" /\ runner[r].fut = 2 /\ Live(runner[r].job) = {2}

\* C9: create_job on an id that is not live allocates an empty queue; on a
\* live id it leaves the job's queue and its buffered events as they are.
C9_DuplicateJob ==
    [][\A r \in Runners :
          (runner[r].pc = "new" /\ runner'[r].pc # "new")
          => IF runner[r].job \in DOMAIN jobs
             THEN jobs' = jobs
             ELSE jobs' = Put(jobs, runner[r].job, <<>>)]_vars

\* C10: a published event is enqueued for the pull stream and reaches every
\* push-stream connection of the job that stays attached with its client
\* there, whatever happens to the other connections: once its send_event
\* has returned, no such connection misses it.
C10_PublishReachesAll ==
    /\ \A j \in DOMAIN jobs :
           sse.state \in {"idle", "open"} =>
               (1..(nextSeq - 1)) \ InFlight \subseteq Numbers(sse_out \o jobs[j])
    /\ \A w \in WsIds :
           (ws[w].state = "attached" /\ ~ws[w].broken /\ ws_out[w] # <<>>) =>
               \A n \in 1..(nextSeq - 1) :
                   (\E m \in Numbers(ws_out[w]) : m < n) =>
                       n \in Numbers(ws_out[w]) \cup InFlight

\* the registry holds something under job id j
Known(j) ==
    j \in DOMAIN jobs \/ j \in DOMAIN confirmations \/ j \in DOMAIN ws_connections

\* C11: publish and resolve_confirmation on a job id the registry does not
\* hold (never created, or retired) are no-ops: a send_event of a Runner
\* whose job is not in the registry leaves the three maps, the futures and
\* every client's events as they are, so the queue is not made again; a
\* confirmation reply leaves every job the registry does not hold absent
\* and its futures untouched.
C11_UnknownJobNoOp ==
    [][/\ \A r \in Runners :
             (runner[r].pc = "run" /\ nextSeq' = nextSeq + 1 /\ runner'[r] # runner[r]
                /\ ~Known(runner[r].job))
             => UNCHANGED <<jobs, confirmations, ws_connections, futures, ws_out, sse_out>>
       /\ nreplies' = nreplies + 1 =>
             \A j \in JobIds :
                 ~Known(j) =>
                     /\ ~Known(j)'
                     /\ \A f \in 1..Len(futures) :
                            futures[f].job = j => futures'[f] = futures[f]]_vars

\* the pull stream was closed by its client before any terminal event, the
\* job was retired, and the Runner has since published its terminal event
\* and a reply has been sent
C11_Witness ==
    /\ runner["r1"].pc = "done"
    /\ ~Known(runner["r1"].job)
    /\ sse.state = "closed"
    /\ sse_out # <<>> /\ \A i \in 1..Len(sse_out) : ~IsTerminal(sse_out[i])
    /\ nreplies > 0

\* what the pull stream has yielded so far is the start of what the job
\* published, in order, with a terminal event only in last place, after
\* which the generator takes no more events
StreamInOrder ==
    /\ \A i \in 1..Len(sse_out) :
           sse_out # <<NotFound>> => sse_out[i].n = i
    /\ \A i \in 1..(Len(sse_out) - 1) : ~IsTerminal(sse_out[i])
    /\ (sse_out # <<>> /\ IsTerminal(sse_out[Len(sse_out)])) =>
           sse.state \in {"closing", "closed"}
    /\ sse.state = "open" =>
           [i \in 1..Len(sse_out \o jobs[sse.job]) |-> (sse_out \o jobs[sse.job])[i].n]
               = [i \in 1..(nextSeq - 1) |-> i]

\* C12: the pull stream yields the job's events in order, closes right
\* after the first terminal event it yields, and when it closes the job
\* entry is deleted if and only if no push-stream connection is attached to
\* the job at that moment (the other entries stay).
C12_ConsumeStream ==
    [][/\ StreamInOrder'
       /\ (sse.state \in {"open", "closing"} /\ sse'.state = "closed") =>
              /\ (sse.job \in DOMAIN jobs') <=> (sse.job \in DOMAIN ws_connections)
              /\ \A j \in (DOMAIN jobs) \ {sse.job} :
                     j \in DOMAIN jobs' /\ jobs'[j] = jobs[j]
              /\ sse.job \in DOMAIN jobs' => jobs'[sse.job] = jobs[sse.job]]_vars

\* the stream closed after a terminal event and the job entry was kept for
\* the push-stream connection attached then
C12_Witness ==
    /\ sse.state = "closed"
    /\ Len(sse_out) >= 2 /\ IsTerminal(sse_out[Len(sse_out)])
    /\ sse.job \in DOMAIN jobs

\* transport t was delivered a terminal event the Runner published
GotTerminal(t) ==
    /\ Out(t) # <<>>
    /\ IsTerminal(Out(t)[Len(Out(t))])
    /\ Out(t)[Len(Out(t))] # NotFound

\* C13: a job whose Runner has published its terminal event is removed from
\* the registry once the event has been delivered to its transports and no
\* confirmation is pending: when the Runner is done, every send_event has
\* returned, no pull stream is open, no push-stream connection is left and
\* a transport was delivered the terminal event, the job entry is gone.
C13_TerminalJobRetired ==
    \A r \in Runners :
        (/\ runner[r].pc = "done"
         /\ Quiet
         /\ ~Pending(runner[r].job)
         /\ sse.state \in {"idle", "closed"}
         /\ \A w \in WsIds : ws[w].state # "attached"
         /\ \E t \in Transports : GotTerminal(t))
        => ~Known(runner[r].job)

\* C14: a pull stream opened for a job id the registry does not hold yields
\* exactly one event, of type error, and closes at once; it makes no job
\* entry and changes nothing in the registry.
C14_UnknownStream ==
    [][(sse.state = "idle" /\ sse' # sse /\ sse'.job \notin DOMAIN jobs) =>
          /\ Len(sse_out') = 1
          /\ sse_out'[1].type = "error"
          /\ sse'.state = "closed"
          /\ UNCHANGED <<jobs, confirmations, ws_connections, futures>>]_vars

\* a stream was opened before the Runner created the job, and the job was
\* created afterwards: the stream stays closed with its one event
C14_Witness ==
    /\ sse_out = <<NotFound>>
    /\ sse.state = "closed"
    /\ sse.job \in DOMAIN jobs

LoopLookups == {"raises", "stray"}

\* a worker whose callback is invoked ends with the RuntimeError
ThreadFails(rec) == rec.loop = "raises"

\* send_event of a Runner with no push-stream connection attached, once
\* per event type of ts, in order
RECURSIVE PutAll(_, _, _, _)
PutAll(js, j, ts, n) ==
    IF ts = <<>> THEN js
    ELSE PutAll(Enqueue(js, j, Event(Head(ts), n, 0)), j, Tail(ts), n + 1)

\* everything a Runner step publishes, and nothing else of the bus changes
Emits(j, ts) ==
    /\ jobs' = PutAll(jobs, j, ts, nextSeq)
    /\ nextSeq' = nextSeq + Len(ts)
    /\ UNCHANGED <<confirmations, ws_connections, futures, tasks, sse, sse_out,
                   ws, ws_out, nreplies>>

\* find_archives(out_dir): the nested archive extracted so far, if any
find_archives(d) == (DOMAIN d) \cap {"out/nested"}

\* POST /api/extract: the archive holds `chain` archives one inside the other
StartExtract(r, j, chain, loop) ==
    /\ runner[r].pc = "idle"
    /\ runner' = [runner EXCEPT ![r] =
           [pc |-> "main", job |-> j, kind |-> "extract", chain |-> chain,
            loop |-> loop, rounds |-> 0, leftover |-> FALSE]]
    /\ disk' = Put(disk, "archive", chain)
    /\ UNCHANGED <<jobs, confirmations, ws_connections, futures, tasks, sse,
                   sse_out, ws, ws_out, nextSeq, nreplies>>

\* an except clause that removes the source archive
ExtractExceptRemoves(d) == Del(d, "archive")

\* `except Exception as e:` of run_extraction: the error event, no file
\* touched
ExtractExcept(d) == d

\* run_extraction up to the nested loop: create_job, the archive copied
\* into the scratch directory in a worker (the copy stops after its first
\* chunk when the callback raises), the main archive extracted in a worker,
\* the except clause when a worker fails
ExtractMain(r) ==
    /\ runner[r].pc = "main"
    /\ LET j == runner[r].job
       IN  IF ThreadFails(runner[r])
           THEN /\ jobs' = PutAll(create_job(jobs, j), j, <<"log", "error">>, nextSeq)
                /\ nextSeq' = nextSeq + 2
                /\ runner' = [runner EXCEPT ![r].pc = "error"]
                /\ disk' = ExtractExcept(Put(disk, "tmp/archive", 0))
           ELSE /\ jobs' = PutAll(create_job(jobs, j), j, <<"log", "log">>, nextSeq)
                /\ nextSeq' = nextSeq + 2
                /\ runner' = [runner EXCEPT ![r].pc = "nested"]
                /\ disk' = LET local == Put(disk, "tmp/archive", disk["archive"])
                           IN  IF disk["archive"] > 0
                               THEN Put(local, "out/nested", disk["archive"] - 1)
                               ELSE local
    /\ UNCHANGED <<confirmations, ws_connections, futures, tasks, sse, sse_out,
                   ws, ws_out, nreplies>>

\* one pass of `for rnd in range(1, config.max_nested_depth + 1)` that finds
\* an archive: extract it in a worker, remove it
ExtractRound(r) ==
    /\ runner[r].pc = "nested"
    /\ runner[r].rounds < max_nested_depth
    /\ find_archives(disk) # {}
    /\ IF ThreadFails(runner[r])
       THEN /\ Emits(runner[r].job, <<"log", "error">>)
            /\ runner' = [runner EXCEPT ![r].pc = "error"]
            /\ disk' = ExtractExcept(disk)
       ELSE /\ Emits(runner[r].job, <<"log", "log">>)
            /\ runner' = [runner EXCEPT ![r].rounds = @ + 1]
            /\ disk' = IF disk["out/nested"] > 0
                       THEN Put(disk, "out/nested", disk["out/nested"] - 1)
                       ELSE Del(disk, "out/nested")

\* a pass that finds an archive _extract cannot read (7z exits non-zero,
\* zipfile or rarfile raises): nothing around extract_nested catches it,
\* the exception ends run_extraction in its except clause
ExtractRoundFails(r) ==
    /\ runner[r].pc = "nested"
    /\ runner[r].rounds < max_nested_depth
    /\ find_archives(disk) # {}
    /\ ~ThreadFails(runner[r])
    /\ Emits(runner[r].job, <<"log", "error">>)
    /\ runner' = [runner EXCEPT ![r].pc = "error",
                                ![r].leftover = TRUE]
    /\ disk' = ExtractExcept(disk)

\* the loop is left (no archive found, or the range is exhausted): upload
\* in a worker, remove the source archive and the scratch directory, complete
ExtractUpload(r) ==
    /\ runner[r].pc = "nested"
    /\ runner[r].rounds = max_nested_depth \/ find_archives(disk) = {}
    /\ IF ThreadFails(runner[r])
       THEN /\ Emits(runner[r].job, <<"log", "error">>)
            /\ runner' = [runner EXCEPT ![r].pc = "error",
                                        ![r].leftover = find_archives(disk) # {}]
            /\ disk' = ExtractExcept(disk)
       ELSE /\ Emits(runner[r].job, <<"log", "log", "complete">>)
            /\ runner' = [runner EXCEPT ![r].pc = "complete",
                                        ![r].leftover = find_archives(disk) # {}]
            /\ disk' = Put(Del(Del(Del(disk, "archive"), "tmp/archive"),
                               "out/nested"), "dest", 0)

\* an extract job watched through the pull stream
NextExtract ==
    \/ \E j \in JobIds, chain \in 0..MaxChain, loop \in LoopLookups :
           StartExtract("r1", j, chain, loop)
    \/ ExtractMain("r1")
    \/ ExtractRound("r1")
    \/ ExtractRoundFails("r1")
    \/ ExtractUpload("r1")
    \/ StreamerNext

SpecExtract == Init /\ [][NextExtract]_vars

\* C16: nested extraction never runs more than max_nested_depth rounds, and
\* for an archive whose every extraction yields one more archive exactly
\* max_nested_depth rounds run, the loop stops with an archive still there
\* and the job ends with complete, not error.
C16_NestedBound ==
    \A r \in Runners :
        runner[r].kind = "extract" =>
            /\ runner[r].rounds <= max_nested_depth
            /\ (runner[r].pc \in {"complete", "error"}
                   /\ runner[r].chain > max_nested_depth) =>
                   /\ runner[r].rounds = max_nested_depth
                   /\ runner[r].leftover
                   /\ runner[r].pc = "complete"

\* ------------------------------------------------------------ compress job
\* the files a compress job can be given, and where each one's compressed
\* artifact goes: os.path.splitext(src)[0] + (".nsz" | ".xcz")
FileNames == {"a.nsp", "b.xci"}

\* the byte size of each of them on the drive
getsize(src) == IF src = "a.nsp" THEN 2 ELSE 1

drive_output(src) == IF src = "a.nsp" THEN "a.nsz" ELSE "b.xcz"

\* sequences of at most n elements of S
UpTo(S, n) == UNION {[1..k -> S] : k \in 0..n}

\* an event as the Runner passes it to send_event: its type and what its
\* data says (the tag of a log line, the file it is about, a number)
Line(t, tag, f, val) == [type |-> t, tag |-> tag, file |-> f, val |-> val]

\* the Runner r publishes the events ms, nobody attached to a push stream,
\* and goes on as rec
Says(r, ms, rec) ==
    /\ jobs' = PutAll(jobs, runner[r].job, [k \in 1..Len(ms) |-> ms[k].type], nextSeq)
    /\ nextSeq' = nextSeq + Len(ms)
    /\ runner' = [runner EXCEPT ![r] = [rec EXCEPT !.said = @ \o ms]]

\* what a copy to the drive can leave behind when it returns: the whole
\* file, fewer bytes than were written, no file; or it raises
UploadOutcomes == {"full", "short", "missing", "raises"}

\* POST /api/compress: every listed file is on the drive
StartCompress(r, j, files, keys, verify, ask, loop) ==
    /\ runner[r].pc = "idle"
    /\ runner' = [runner EXCEPT ![r] =
           [pc |-> "begin", job |-> j, kind |-> "compress", files |-> files,
            keys |-> keys, verify |-> verify, ask |-> ask, loop |-> loop, i |-> 1,
            compressed |-> 0, failed |-> 0, fut |-> 0, said |-> <<>>]]
    /\ disk' = [f \in {files[k] : k \in 1..Len(files)} |-> getsize(f)]
    /\ UNCHANGED <<jobs, confirmations, ws_connections, futures, tasks, sse,
                   sse_out, ws, ws_out, nextSeq, nreplies>>

\* a Runner that goes on whether or not prod.keys is there
stage_keys_ok(rec) == TRUE

\* ok, path = _stage_keys(): prod.keys is a non-empty file
stage_keys(rec) == rec.keys

\* run_compression up to its loop: create_job, the keys staged; without
\* prod.keys the RuntimeError goes to the outer except clause
CompressBegin(r) ==
    /\ runner[r].pc = "begin"
    /\ runner[r].kind = "compress"
    /\ LET j  == runner[r].job
           ms == <<Line("log", "Staging", "", 0)>>
                 \o IF stage_keys(runner[r]) THEN <<>>
                    ELSE <<Line("error", "prod.keys missing", "", 0)>>
       IN  /\ jobs' = PutAll(create_job(jobs, j), j,
                             [k \in 1..Len(ms) |-> ms[k].type], nextSeq)
           /\ nextSeq' = nextSeq + Len(ms)
           /\ runner' = [runner EXCEPT
                  ![r].pc = IF stage_keys(runner[r]) THEN "item" ELSE "error",
                  ![r].said = @ \o ms]
    /\ UNCHANGED <<disk, confirmations, ws_connections, futures, tasks, sse,
                   sse_out, ws, ws_out, nreplies>>

\* an except clause that leaves drive_output where it is
ItemFailsKeeps(r, ms, src) ==
    /\ Says(r, ms \o <<Line("log", "FAIL", src, 0),
                       Line("progress", "stats", src, 0)>>,
            [runner[r] EXCEPT !.pc = "item", !.i = @ + 1, !.failed = @ + 1])
    /\ disk' = Del(Del(disk, "tmp/in"), "tmp/out")

\* the item's except and finally clauses and the statistics event after
\* them: FAIL line, failed_count += 1, drive_output removed if it exists,
\* the scratch directory removed
ItemFails(r, ms, src) ==
    /\ Says(r, ms \o <<Line("log", "FAIL", src, 0),
                       Line("progress", "stats", src, 0)>>,
            [runner[r] EXCEPT !.pc = "item", !.i = @ + 1, !.failed = @ + 1])
    /\ disk' = Del(Del(Del(disk, drive_output(src)), "tmp/in"), "tmp/out")

\* the progress callback of a worker: the coroutine send_event(...) is
\* created on the worker and given to run_coroutine_threadsafe with the loop
\* asyncio.get_event_loop() finds on that thread, never the loop the Runner
\* runs on; of the events ms none is ever passed to send_event
Handoff(rec, ms) == IF rec.loop \in LoopLookups THEN <<>> ELSE ms

\* one pass of `for i, src in enumerate(files, 1)` up to the confirmation:
\* the scratch directory wiped, the source copied into it in a worker, the
\* codec run in a worker (it ends well or raises), then, with ask_confirm,
\* wait_for_confirmation with the sizes of the two local files
CompressItem(r, tool) ==
    /\ runner[r].pc = "item"
    /\ runner[r].kind = "compress"
    /\ runner[r].i <= Len(runner[r].files)
    /\ LET j       == runner[r].job
           src     == runner[r].files[runner[r].i]
           f       == Len(futures) + 1
           copying == <<Line("log", "Copying", src, 0)>>
                      \o Handoff(runner[r], <<Line("progress", "copy", src,
                                                   getsize(src))>>)
           both    == copying \o <<Line("log", "Compressing", src, 0)>>
           local   == Put(Put(disk, "tmp/in", disk[src]),
                          "tmp/out", (disk[src] + 1) \div 2)
       IN  IF src \notin DOMAIN disk \/ ThreadFails(runner[r])
           THEN /\ ItemFails(r, copying, src)
                /\ UNCHANGED <<confirmations, futures>>
           ELSE IF ~tool
           THEN /\ ItemFails(r, both, src)
                /\ UNCHANGED <<confirmations, futures>>
           ELSE IF ~runner[r].ask
           THEN /\ Says(r, both, [runner[r] EXCEPT !.pc = "upload"])
                /\ disk' = local
                /\ UNCHANGED <<confirmations, futures>>
           ELSE IF NoTransport(j)
           THEN /\ Says(r, both \o <<Line("log", "SKIPPED", src, 0)>>,
                        [runner[r] EXCEPT !.i = @ + 1])
                /\ disk' = disk
                /\ UNCHANGED <<confirmations, futures>>
           ELSE /\ futures' = Append(futures, NewFuture(j))
                /\ confirmations' = Put(confirmations, j, f)
                /\ jobs' = Enqueue(PutAll(jobs, j, <<"log", "log">>, nextSeq), j,
                                   Event("confirm_request", nextSeq + 2, f))
                /\ nextSeq' = nextSeq + 3
                /\ runner' = [runner EXCEPT
                       ![r].pc = "await", ![r].fut = f,
                       ![r].said = @ \o both \o
                           <<Line("confirm_request", "original_size", src,
                                  local["tmp/in"])>>]
                /\ disk' = local
    /\ UNCHANGED <<ws_connections, tasks, sse, sse_out, ws, ws_out, nreplies>>

\* a Runner that takes every reply for an acceptance
DeclinedNever(fut) == FALSE

\* `if not keep:` on what wait_for_confirmation returned
Declined(fut) == ~fut.result

\* wait_for_confirmation returns: `if not keep:` the SKIPPED line and
\* `continue` through the finally clause, else on to the upload
CompressResume(r) ==
    /\ runner[r].pc = "await"
    /\ runner[r].kind = "compress"
    /\ AwaitReturns(futures[runner[r].fut])
    /\ LET j   == runner[r].job
           f   == runner[r].fut
           src == runner[r].files[runner[r].i]
       IN  /\ confirmations' = IF j \in DOMAIN confirmations
                               THEN Del(confirmations, j) ELSE confirmations
           /\ futures' = [futures EXCEPT ![f].returned = Append(@, futures[f].result)]
           /\ IF ~Declined(futures[f])
              THEN /\ runner' = [runner EXCEPT ![r].pc = "upload", ![r].fut = 0]
                   /\ UNCHANGED <<disk, jobs, nextSeq>>
              ELSE /\ Says(r, <<Line("log", "SKIPPED", src, 0)>>,
                           [runner[r] EXCEPT !.pc = "item", !.fut = 0, !.i = @ + 1])
                   /\ disk' = Del(Del(disk, "tmp/in"), "tmp/out")
    /\ UNCHANGED <<ws_connections, tasks, sse, sse_out, ws, ws_out, nreplies>>

\* the rest of the pass: with verify_after the local output verified in a
\* worker (a failed verification raises), the local output copied to
\* drive_output in a worker, `if os.path.exists(src): os.remove(src)`, the
\* OK line, compressed_count += 1, the finally clause, the statistics event
CompressUpload(r, verified, up) ==
    /\ runner[r].pc = "upload"
    /\ runner[r].kind = "compress"
    /\ LET src       == runner[r].files[runner[r].i]
           verifying == IF runner[r].verify
                        THEN <<Line("log", "Verifying", src, 0)>> ELSE <<>>
           uploading == verifying \o <<Line("log", "Uploading", src, 0)>>
           written   == IF up = "full" THEN disk["tmp/out"] ELSE disk["tmp/out"] - 1
           drive     == IF up = "missing" THEN Del(disk, drive_output(src))
                        ELSE Put(disk, drive_output(src), written)
       IN  IF runner[r].verify /\ (~verified \/ "tmp/out" \notin DOMAIN disk)
           THEN ItemFails(r, verifying, src)
           ELSE IF \/ up = "raises"
                   \/ ThreadFails(runner[r])
                   \/ "tmp/out" \notin DOMAIN disk
           THEN ItemFails(r, uploading, src)
           ELSE /\ Says(r, uploading \o <<Line("log", "OK", src, 0),
                                          Line("progress", "stats", src, 0)>>,
                        [runner[r] EXCEPT !.pc = "item", !.i = @ + 1,
                                          !.compressed = @ + 1])
                /\ disk' = Del(Del(Del(drive, src), "tmp/in"), "tmp/out")
    /\ UNCHANGED <<confirmations, ws_connections, futures, tasks, sse, sse_out,
                   ws, ws_out, nreplies>>

\* after the last pass: "Done: {compressed_count} compressed,
\* {failed_count} failed"
CompressDone(r) ==
    /\ runner[r].pc = "item"
    /\ runner[r].kind = "compress"
    /\ runner[r].i > Len(runner[r].files)
    /\ Says(r, <<Line("complete", "Done", "",
                      <<runner[r].compressed, runner[r].failed>>)>>,
            [runner[r] EXCEPT !.pc = "complete"])
    /\ UNCHANGED <<disk, confirmations, ws_connections, futures, tasks, sse,
                   sse_out, ws, ws_out, nreplies>>

\* a compress job watched through the pull stream and answered on the
\* confirm route
NextCompress ==
    \/ \E j \in JobIds, files \in UpTo(FileNames, MaxFiles),
          keys \in BOOLEAN, verify \in BOOLEAN, ask \in BOOLEAN,
          loop \in LoopLookups :
           StartCompress("r1", j, files, keys, verify, ask, loop)
    \/ CompressBegin("r1")
    \/ \E tool \in BOOLEAN : CompressItem("r1", tool)
    \/ CompressResume("r1")
    \/ \E verified \in BOOLEAN, up \in UploadOutcomes :
           CompressUpload("r1", verified, up)
    \/ CompressDone("r1")
    \/ StreamerNext
    \/ HttpNext

SpecCompress == Init /\ [][NextCompress]_vars

\* C17: in a compress job a source file is deleted, and an item counted as
\* compressed, only in a step that leaves the destination artifact on the
\* drive with the byte size of the local output.
C17_DeleteAfterCheck ==
    [][\A r \in Runners :
          (runner[r].kind = "compress" /\ runner[r].pc = "upload") =>
              LET src == runner[r].files[runner[r].i]
              IN  (src \notin DOMAIN disk' \/ runner'[r].compressed > runner[r].compressed)
                      => /\ drive_output(src) \in DOMAIN disk'
                         /\ disk'[drive_output(src)] = disk["tmp/out"]]_vars

StartVerify(r, j, files, keys, outcomes) ==
    /\ runner[r].pc = "idle"
    /\ runner' = [runner EXCEPT ![r] =
           [pc |-> "begin", job |-> j, kind |-> "verify", files |-> files,
            keys |-> keys, outcomes |-> outcomes, i |-> 1, passed |-> 0,
            failed |-> 0, said |-> <<>>]]
    /\ UNCHANGED <<disk, jobs, confirmations, ws_connections, futures, tasks, sse,
                   sse_out, ws, ws_out, nextSeq, nreplies>>

\* run_verification up to its loop: create_job, the keys staged; without
\* prod.keys the RuntimeError goes to the except clause
VerifyBegin(r) ==
    /\ runner[r].pc = "begin"
    /\ runner[r].kind = "verify"
    /\ LET j  == runner[r].job
           ms == <<Line("log", "Staging", "", 0)>>
                 \o IF stage_keys(runner[r]) THEN <<Line("log", "Keys staged", "", 0)>>
                    ELSE <<Line("error", "prod.keys missing", "", 0)>>
       IN  /\ jobs' = PutAll(create_job(jobs, j), j,
                             [k \in 1..Len(ms) |-> ms[k].type], nextSeq)
           /\ nextSeq' = nextSeq + Len(ms)
           /\ runner' = [runner EXCEPT
                  ![r].pc = IF stage_keys(runner[r]) THEN "item" ELSE "error",
                  ![r].said = @ \o ms]
    /\ UNCHANGED <<disk, confirmations, ws_connections, futures, tasks, sse,
                   sse_out, ws, ws_out, nreplies>>

\* a job that reports every file as passed
VerdictOK(ok) == "OK"

\* the log line after _verify_file: f"OK    ..." or f"FAIL  ... - {err}"
Verdict(ok) == IF ok THEN "OK" ELSE "FAIL"

\* one pass of `for i, f in enumerate(files, 1)`: the progress event,
\* _verify_file in a worker, the counter and the log line of its result,
\* the statistics event
VerifyFile(r) ==
    /\ runner[r].pc = "item"
    /\ runner[r].kind = "verify"
    /\ runner[r].i <= Len(runner[r].files)
    /\ LET f  == runner[r].files[runner[r].i]
           ok == runner[r].outcomes[runner[r].i]
       IN  Says(r, <<Line("progress", "Verifying", f, runner[r].i),
                     Line("log", Verdict(ok), f, 0),
                     Line("progress", "stats", f, 0)>>,
                [runner[r] EXCEPT !.i = @ + 1,
                                  !.passed = IF ok THEN @ + 1 ELSE @,
                                  !.failed = IF ok THEN @ ELSE @ + 1])
    /\ UNCHANGED <<disk, confirmations, ws_connections, futures, tasks, sse,
                   sse_out, ws, ws_out, nreplies>>

\* after the last pass: "Verification done: {passed} OK, {failed} failed"
VerifyDone(r) ==
    /\ runner[r].pc = "item"
    /\ runner[r].kind = "verify"
    /\ runner[r].i > Len(runner[r].files)
    /\ Says(r, <<Line("complete", "Verification done", "",
                      <<runner[r].passed, runner[r].failed>>)>>,
            [runner[r] EXCEPT !.pc = "complete"])
    /\ UNCHANGED <<disk, confirmations, ws_connections, futures, tasks, sse,
                   sse_out, ws, ws_out, nreplies>>

\* a verify job watched through the pull stream
NextVerify ==
    \/ \E j \in JobIds, files \in UpTo(FileNames, MaxVerify), keys \in BOOLEAN :
           \E outcomes \in [1..Len(files) -> BOOLEAN] :
               StartVerify("r1", j, files, keys, outcomes)
    \/ VerifyBegin("r1")
    \/ VerifyFile("r1")
    \/ VerifyDone("r1")
    \/ StreamerNext

SpecVerify == Init /\ [][NextVerify]_vars

\* C19: a verify job whose keys are staged publishes, for the files
\* checked so far, exactly one OK/FAIL line each, in input order, OK for
\* the files the checker passed and FAIL for the others; it never ends with
\* error; when it has ended every file has its line and the complete event
\* carries the numbers of OK and of FAIL lines, which add up to the number
\* of files.
C19_VerifyEveryFile ==
    \A r \in Runners :
        (runner[r].kind = "verify" /\ runner[r].keys) =>
            LET IsVerdict(e) == e.type = "log" /\ e.tag \in {"OK", "FAIL"}
                verdicts == SelectSeq(runner[r].said, IsVerdict)
                said     == runner[r].said
                Count(t) == Cardinality({k \in 1..Len(verdicts) : verdicts[k].tag = t})
            IN  /\ Len(verdicts) = runner[r].i - 1
                /\ \A k \in 1..Len(verdicts) :
                       /\ verdicts[k].file = runner[r].files[k]
                       /\ verdicts[k].tag = "OK" <=> runner[r].outcomes[k]
                /\ runner[r].pc # "error"
                /\ runner[r].pc = "complete" =>
                       /\ Len(verdicts) = Len(runner[r].files)
                       /\ said[Len(said)].type = "complete"
                       /\ said[Len(said)].val = <<Count("OK"), Count("FAIL")>>
                       /\ Count("OK") + Count("FAIL") = Len(runner[r].files)

\* three files, the checker failing the second one only: the job has ended
\* with complete reporting passed = 2, failed = 1
C19_Witness ==
    \E r \in Runners :
        /\ runner[r].kind = "verify"
        /\ runner[r].pc = "complete"
        /\ runner[r].outcomes = <<TRUE, FALSE, TRUE>>
        /\ runner[r].said[Len(runner[r].said)].val = <<2, 1>>

\* ------------------------------------------------------------ organize job
\* what the analysis finds for a file: no title id ("unknown"), a title id
\* the TitleDB does not hold ("nodb"), or the title's name
Infos == {"unknown", "nodb", "a", "T"}

\* os.path.join(os.path.dirname(path), f"{safe_name} [{tid}]{ver_str}{ext}")
new_path(path, name) == name \o (IF path = "a.nsp" THEN ".nsp" ELSE ".xci")

\* an analysis that takes every file for resolved
ResolvesAlways(info) == TRUE

\* `if tid:` and `name = titledb.get(tid)`, `if name:`
Resolves(info) == info \notin {"unknown", "nodb"}

\* an analysis that plans a rename for every file it resolves
InPlanAlways(path, new) == TRUE

\* `if new_path != path:`
InPlan(path, new) == new # path

\* POST /api/organize: every listed file is on the drive
StartOrganize(r, j, files, infos) ==
    /\ runner[r].pc = "idle"
    /\ runner' = [runner EXCEPT ![r] =
           [pc |-> "begin", job |-> j, kind |-> "organize", files |-> files,
            infos |-> infos, i |-> 1, plan |-> <<>>, fut |-> 0, success |-> 0,
            fail |-> 0, said |-> <<>>]]
    /\ disk' = [f \in {files[k] : k \in 1..Len(files)} |-> getsize(f)]
    /\ UNCHANGED <<jobs, confirmations, ws_connections, futures, tasks, sse,
                   sse_out, ws, ws_out, nextSeq, nreplies>>

\* run_analysis up to its loop: create_job, keys, TitleDB
OrganizeBegin(r) ==
    /\ runner[r].pc = "begin"
    /\ jobs' = PutAll(create_job(jobs, runner[r].job), runner[r].job,
                      <<"log", "log">>, nextSeq)
    /\ nextSeq' = nextSeq + 2
    /\ runner' = [runner EXCEPT
           ![r].pc = "item",
           ![r].said = @ \o <<Line("log", "Staging", "", 0),
                              Line("log", "Loading TitleDB", "", 0)>>]
    /\ UNCHANGED <<disk, confirmations, ws_connections, futures, tasks, sse,
                   sse_out, ws, ws_out, nreplies>>

\* one pass of `for i, path in enumerate(files, 1)`: the progress event,
\* _get_file_info in a worker, a plan entry or a "Skipping" line
OrganizeFile(r) ==
    /\ runner[r].pc = "item"
    /\ runner[r].i <= Len(runner[r].files)
    /\ LET path == runner[r].files[runner[r].i]
           info == runner[r].infos[runner[r].i]
           new  == new_path(path, info)
           step == <<Line("progress", "Analyzing", path, runner[r].i)>>
       IN  IF ~Resolves(info)
           THEN Says(r, step \o <<Line("log", "Skipping", path, 0)>>,
                     [runner[r] EXCEPT !.i = @ + 1])
           ELSE Says(r, step,
                     [runner[r] EXCEPT
                         !.i = @ + 1,
                         !.plan = IF InPlan(path, new)
                                  THEN Append(@, [old |-> path, new |-> new])
                                  ELSE @])
    /\ UNCHANGED <<disk, confirmations, ws_connections, futures, tasks, sse,
                   sse_out, ws, ws_out, nreplies>>

\* after the loop: `if not plan:` complete, else wait_for_confirmation
\* with {"plan": plan}
OrganizeAsk(r) ==
    /\ runner[r].pc = "item"
    /\ runner[r].i > Len(runner[r].files)
    /\ LET j == runner[r].job
           f == Len(futures) + 1
       IN  IF runner[r].plan = <<>>
           THEN /\ Says(r, <<Line("complete", "No files need renaming", "", 0)>>,
                        [runner[r] EXCEPT !.pc = "complete"])
                /\ UNCHANGED <<confirmations, futures>>
           ELSE IF NoTransport(j)
           THEN /\ Says(r, <<Line("complete", "Rename cancelled", "", 0)>>,
                        [runner[r] EXCEPT !.pc = "complete"])
                /\ UNCHANGED <<confirmations, futures>>
           ELSE /\ futures' = Append(futures, NewFuture(j))
                /\ confirmations' = Put(confirmations, j, f)
                /\ jobs' = Enqueue(jobs, j, Event("confirm_request", nextSeq, f))
                /\ nextSeq' = nextSeq + 1
                /\ runner' = [runner EXCEPT
                       ![r].pc = "await", ![r].fut = f,
                       ![r].said = Append(@, Line("confirm_request", "plan", "",
                                                  runner[r].plan))]
    /\ UNCHANGED <<disk, ws_connections, tasks, sse, sse_out, ws, ws_out, nreplies>>

\* os.rename(item["old"], item["new"]) for every item of the plan in turn:
\* the drive afterwards, and how many renames raised
RECURSIVE rename(_, _)
rename(d, plan) ==
    IF plan = <<>> THEN [drive |-> d, fail |-> 0]
    ELSE LET item == Head(plan)
         IN  IF item.old \in DOMAIN d
             THEN rename(Put(Del(d, item.old), item.new, d[item.old]), Tail(plan))
             ELSE [rename(d, Tail(plan)) EXCEPT !.fail = @ + 1]

\* wait_for_confirmation returns: `if apply:` _execute_rename on the
\* loop's thread (every rename done, a progress and a log coroutine per
\* item and a complete coroutine scheduled), else complete
OrganizeResume(r) ==
    /\ runner[r].pc = "await"
    /\ AwaitReturns(futures[runner[r].fut])
    /\ LET j    == runner[r].job
           f    == runner[r].fut
           n    == Len(runner[r].plan)
           done == rename(disk, runner[r].plan)
       IN  /\ confirmations' = IF j \in DOMAIN confirmations
                               THEN Del(confirmations, j) ELSE confirmations
           /\ futures' = [futures EXCEPT ![f].returned = Append(@, futures[f].result)]
           /\ IF futures[f].result
              THEN /\ tasks' = [k \in 1..(2 * n + 1) |->
                                   [job |-> j, ev |-> PlanEvents(n, nextSeq)[k],
                                    started |-> FALSE, it |-> 0]]
                   /\ nextSeq' = nextSeq + 2 * n + 1
                   /\ disk' = done.drive
                   /\ runner' = [runner EXCEPT
                          ![r].pc = "done", ![r].fut = 0,
                          ![r].success = n - done.fail, ![r].fail = done.fail]
                   /\ jobs' = jobs
              ELSE /\ Says(r, <<Line("complete", "Rename cancelled", "", 0)>>,
                           [runner[r] EXCEPT !.pc = "complete", !.fut = 0])
                   /\ UNCHANGED <<disk, tasks>>
    /\ UNCHANGED <<ws_connections, sse, sse_out, ws, ws_out, nreplies>>

\* an organize job watched through the pull stream and answered on the
\* confirm route
NextOrganize ==
    \/ \E j \in JobIds, files \in UpTo(FileNames, MaxFiles) :
           \E infos \in [1..Len(files) -> Infos] :
               StartOrganize("r1", j, files, infos)
    \/ OrganizeBegin("r1")
    \/ OrganizeFile("r1")
    \/ OrganizeAsk("r1")
    \/ OrganizeResume("r1")
    \/ TaskNext
    \/ StreamerNext
    \/ HttpNext

SpecOrganize == Init /\ [][NextOrganize]_vars

\* the confirm_request events an organize Runner has published
Requests(r) ==
    {k \in 1..Len(runner[r].said) : runner[r].said[k].type = "confirm_request"}

\* C20, as stated: an organize job for a list of files that has ended has
\* published exactly one confirm_request.
C20_ExactlyOneRequest ==
    \A r \in Runners :
        (runner[r].kind = "organize" /\ runner[r].files # <<>>
            /\ runner[r].pc \in {"complete", "done"}) =>
            Cardinality(Requests(r)) = 1

\* C20, amended: an organize job publishes at most one confirm_request, and
\* none when its plan is empty; the one it publishes comes after every file
\* was analysed and carries the whole plan, an entry for each file whose
\* title resolved to another name, in input order; the Runner that awaits a
\* reply or has renamed anything has published it, and nothing on the drive
\* changes before the reply.
C20_OneRequestForPlan ==
    \A r \in Runners :
        runner[r].kind = "organize" =>
            LET files  == runner[r].files
                infos  == runner[r].infos
                plan   == runner[r].plan
                Due(k) == /\ infos[k] \notin {"unknown", "nodb"}
                          /\ new_path(files[k], infos[k]) # files[k]
                due    == {k \in 1..Len(files) : Due(k)}
            IN  /\ Cardinality(Requests(r)) <= 1
                /\ \A q \in Requests(r) :
                       /\ runner[r].i = Len(files) + 1
                       /\ runner[r].said[q].val = plan
                       /\ Len(plan) = Cardinality(due)
                       /\ plan # <<>>
                       /\ \A k \in due :
                              LET at == Cardinality({m \in due : m <= k})
                              IN  /\ plan[at].old = files[k]
                                  /\ plan[at].new = new_path(files[k], infos[k])
                /\ runner[r].pc \in {"await", "done"} => Requests(r) # {}
                /\ runner[r].success + runner[r].fail > 0 => Requests(r) # {}
                /\ runner[r].pc \in {"begin", "item", "await", "complete"} =>
                       disk = [f \in {files[k] : k \in 1..Len(files)} |-> getsize(f)]

\* two files, one of them resolved to another name: the plan of one entry
\* was confirmed and the file renamed
C20_Witness ==
    \E r \in Runners :
        /\ runner[r].kind = "organize"
        /\ runner[r].pc = "done"
        /\ Len(runner[r].files) = 2
        /\ Len(runner[r].plan) = 1
        /\ runner[r].success = 1
        /\ Cardinality(Requests(r)) = 1

\* the replies wait_for_confirmation has returned to the Runners of job j
Returned(j) ==
    {futures[f].returned[1] :
        f \in {g \in 1..Len(futures) : futures[g].job = j /\ futures[g].returned # <<>>}}

NextKeys ==
    \/ NextCompress
    \/ NextVerify

SpecKeys == Init /\ [][NextKeys]_vars

\* C22: a compress or verify job started without usable prod.keys never
\* enters its loop: no file is copied, checked or counted, nothing on the
\* drive changes, the keys are staged once, and the job ends with the one
\* event after the "Staging" line, an error carrying the missing-keys
\* message.
C22_MissingKeysAbort ==
    \A r \in Runners :
        (runner[r].kind \in {"compress", "verify"} /\ ~runner[r].keys) =>
            LET said   == runner[r].said
                files  == runner[r].files
            IN  /\ runner[r].pc \in {"begin", "error"}
                /\ runner[r].i = 1
                /\ runner[r].failed = 0
                /\ \A k \in 1..Len(said) : said[k].file = ""
                /\ runner[r].kind = "compress" =>
                       /\ runner[r].compressed = 0
                       /\ disk = [f \in {files[k] : k \in 1..Len(files)} |-> getsize(f)]
                /\ runner[r].kind = "verify" => runner[r].passed = 0
                /\ runner[r].pc = "begin" => said = <<>>
                /\ runner[r].pc = "error" =>
                       /\ Len(said) = 2
                       /\ said[1].type = "log" /\ said[1].tag = "Staging"
                       /\ said[2].type = "error" /\ said[2].tag = "prod.keys missing"

\* a job for two files has ended without its keys
C22_Witness ==
    \E r \in Runners :
        /\ runner[r].kind \in {"compress", "verify"}
        /\ ~runner[r].keys
        /\ Len(runner[r].files) = 2
        /\ runner[r].pc = "error"

\* C23: an archive nested in the archive of an extract job that fails to
\* extract does not end the job with error: a job whose progress callbacks
\* do not raise never ends with error once its main archive is extracted.
C23_ItemErrorContained ==
    \A r \in Runners :
        (runner[r].kind = "extract" /\ ~ThreadFails(runner[r])) =>
            runner[r].pc # "error"

\* C24: when an extract job has ended, with complete or with error, nothing
\* of it is left in the scratch directory.
C24_ExitClean ==
    \A r \in Runners :
        (runner[r].kind = "extract" /\ runner[r].pc \in {"complete", "error"}) =>
            (DOMAIN disk) \cap {"tmp/archive", "out/nested"} = {}

\* --------------------------------------------------------- aggregate copy
\* a total that counts the first file only
SumHead(sizes) == IF sizes = <<>> THEN 0 ELSE Head(sizes)

\* total = sum(s for *_, s in items)
RECURSIVE Sum(_)
Sum(sizes) == IF sizes = <<>> THEN 0 ELSE Head(sizes) + Sum(Tail(sizes))

\* a callback that reports the bytes of the current file only
ReportedPerFile(done_start, d) == d

\* lambda d, t, _d=done_start, _f=fname: on_prog(_d + d, total, _f)
Reported(done_start, d) == done_start + d

\* _upload_all(src_root, dst_root, on_prog) called with a callback that
\* returns: the sizes of the files os.walk lists, the total over them
StartUpload(r, sizes) ==
    /\ runner[r].pc = "idle"
    /\ runner' = [runner EXCEPT ![r] =
           [pc |-> "file", job |-> "none", kind |-> "upload", sizes |-> sizes,
            total |-> Sum(sizes), done |-> 0, i |-> 1, copied |-> 0,
            reports |-> <<>>]]
    /\ UNCHANGED <<disk, jobs, confirmations, ws_connections, futures, tasks, sse,
                   sse_out, ws, ws_out, nextSeq, nreplies>>

\* the head of one pass of `for src, dst, sz in items`:
\* on_prog(done, total, fname), done_start = done
UploadFile(r) ==
    /\ runner[r].pc = "file"
    /\ runner[r].kind = "upload"
    /\ runner[r].i <= Len(runner[r].sizes)
    /\ runner' = [runner EXCEPT
           ![r].pc = "copy", ![r].copied = 0,
           ![r].reports = Append(@, <<runner[r].done, runner[r].total>>)]
    /\ UNCHANGED <<disk, jobs, confirmations, ws_connections, futures, tasks, sse,
                   sse_out, ws, ws_out, nextSeq, nreplies>>

\* one pass of copy_with_progress's `while buf := r.read(...)`: the chunk
\* written, done += len(buf), the callback
UploadChunk(r) ==
    /\ runner[r].pc = "copy"
    /\ runner[r].kind = "upload"
    /\ runner[r].copied < runner[r].sizes[runner[r].i]
    /\ LET left == runner[r].sizes[runner[r].i] - runner[r].copied
           d    == runner[r].copied + (IF left < Chunk THEN left ELSE Chunk)
       IN  runner' = [runner EXCEPT
               ![r].copied = d,
               ![r].reports = Append(@, <<Reported(runner[r].done, d),
                                          runner[r].total>>)]
    /\ UNCHANGED <<disk, jobs, confirmations, ws_connections, futures, tasks, sse,
                   sse_out, ws, ws_out, nextSeq, nreplies>>

\* read() returns nothing more: copy_with_progress returns, done += sz
UploadCopied(r) ==
    /\ runner[r].pc = "copy"
    /\ runner[r].kind = "upload"
    /\ runner[r].copied = runner[r].sizes[runner[r].i]
    /\ runner' = [runner EXCEPT
           ![r].pc = "file", ![r].i = @ + 1, ![r].copied = 0,
           ![r].done = @ + runner[r].sizes[runner[r].i]]
    /\ UNCHANGED <<disk, jobs, confirmations, ws_connections, futures, tasks, sse,
                   sse_out, ws, ws_out, nextSeq, nreplies>>

\* after the last pass: on_prog(total, total, "")
UploadEnd(r) ==
    /\ runner[r].pc = "file"
    /\ runner[r].kind = "upload"
    /\ runner[r].i > Len(runner[r].sizes)
    /\ runner' = [runner EXCEPT
           ![r].pc = "complete",
           ![r].reports = Append(@, <<runner[r].total, runner[r].total>>)]
    /\ UNCHANGED <<disk, jobs, confirmations, ws_connections, futures, tasks, sse,
                   sse_out, ws, ws_out, nextSeq, nreplies>>

NextUpload ==
    \/ \E sizes \in UpTo(0..MaxBytes, MaxTree) : StartUpload("r1", sizes)
    \/ UploadFile("r1")
    \/ UploadChunk("r1")
    \/ UploadCopied("r1")
    \/ UploadEnd("r1")

SpecUpload == Init /\ [][NextUpload]_vars

\* C25: when an aggregate copy has returned, its last progress report has
\* done equal to the total, and the total is the sum of the sizes of all
\* the files listed before the first one was copied.
C25_LastReportIsTotal ==
    \A r \in Runners :
        (runner[r].kind = "upload" /\ runner[r].pc = "complete") =>
            LET sizes == runner[r].sizes
                S[k \in 0..Len(sizes)] == IF k = 0 THEN 0 ELSE S[k - 1] + sizes[k]
                last  == runner[r].reports[Len(runner[r].reports)]
            IN  /\ last[1] = S[Len(sizes)]
                /\ last[2] = S[Len(sizes)]

\* three files of 3, 0 and 1 bytes have been copied
C25_Witness ==
    \E r \in Runners :
        /\ runner[r].kind = "upload"
        /\ runner[r].pc = "complete"
        /\ runner[r].sizes = <<3, 0, 1>>
        /\ Len(runner[r].reports) = 7

\* C26: during an aggregate copy the last reported done is the sum of the
\* sizes of the files already copied plus the bytes copied of the current
\* file; the reported values never decrease and never exceed the total.
C26_RunningTotal ==
    \A r \in Runners :
        runner[r].kind = "upload" =>
            LET sizes   == runner[r].sizes
                reports == runner[r].reports
                n       == Len(reports)
                S[k \in 0..Len(sizes)] == IF k = 0 THEN 0 ELSE S[k - 1] + sizes[k]
            IN  /\ (n > 0 /\ runner[r].pc \in {"file", "copy"}) =>
                       reports[n][1] = S[runner[r].i - 1] + runner[r].copied
                /\ \A k \in 1..n :
                       /\ reports[k][1] <= S[Len(sizes)]
                       /\ reports[k][2] = S[Len(sizes)]
                       /\ k > 1 => reports[k - 1][1] <= reports[k][1]

\* the second file of a tree is partly copied: the report counts the whole
\* first file and the first chunk of the second
C26_Witness ==
    \E r \in Runners :
        /\ runner[r].kind = "upload"
        /\ runner[r].pc = "copy"
        /\ runner[r].i = 2
        /\ runner[r].sizes[1] > 0
        /\ runner[r].copied > 0
        /\ runner[r].copied < runner[r].sizes[2]

\* ------------------------------------------- external-tool progress adapters
\* int(input_size * 0.7), the total _compress_xci reports
estimate(input_size) == (input_size * 7) \div 10

\* _compress_nsp ("cell": the tool writes [read, written, total, step] into
\* status_report[0], which starts as [0, 0, 1, "Starting"]) or _compress_xci
\* ("size": the tool writes its output file) called with a callback that
\* returns; the tool's thread is started
StartAdapter(r, variant, input_size) ==
    /\ runner[r].pc = "idle"
    /\ runner' = [runner EXCEPT ![r] =
           [pc |-> "alive", job |-> "none", kind |-> "adapter",
            variant |-> variant, input |-> input_size, written |-> FALSE,
            value |-> 0, total |-> 1, reports |-> <<>>]]
    /\ UNCHANGED <<disk, jobs, confirmations, ws_connections, futures, tasks, sse,
                   sse_out, ws, ws_out, nextSeq, nreplies>>

\* the tool's thread goes on: the bytes read so far and the total are in
\* the cell, or the output file has v bytes
ToolWrites(r, v) ==
    /\ runner[r].pc = "alive"
    /\ runner[r].kind = "adapter"
    /\ runner' = [runner EXCEPT ![r].written = TRUE, ![r].value = v,
                                ![r].total = runner[r].input]
    /\ UNCHANGED <<disk, jobs, confirmations, ws_connections, futures, tasks, sse,
                   sse_out, ws, ws_out, nextSeq, nreplies>>

\* one pass of `while t.is_alive():` that calls on_progress: with
\* status_report[0] as it is, or with the size of the output file (once it
\* exists) and the estimate
AdapterPoll(r) ==
    /\ runner[r].pc = "alive"
    /\ runner[r].kind = "adapter"
    /\ Len(runner[r].reports) < MaxPolls
    /\ runner[r].variant = "size" => runner[r].written
    /\ runner' = [runner EXCEPT ![r].reports = Append(@,
           IF runner[r].variant = "cell"
           THEN <<runner[r].value, runner[r].total>>
           ELSE <<runner[r].value, estimate(runner[r].input)>>)]
    /\ UNCHANGED <<disk, jobs, confirmations, ws_connections, futures, tasks, sse,
                   sse_out, ws, ws_out, nextSeq, nreplies>>

\* the tool ends well, everything read and its output of v bytes written;
\* is_alive() is false, t.join(), return res[0]
AdapterReturn(r, v) ==
    /\ runner[r].pc = "alive"
    /\ runner[r].kind = "adapter"
    /\ runner' = [runner EXCEPT
           ![r].pc = "complete", ![r].written = TRUE,
           ![r].total = runner[r].input,
           ![r].value = IF runner[r].variant = "cell" THEN runner[r].input ELSE v]
    /\ UNCHANGED <<disk, jobs, confirmations, ws_connections, futures, tasks, sse,
                   sse_out, ws, ws_out, nextSeq, nreplies>>

NextAdapter ==
    \/ \E variant \in {"cell", "size"}, input_size \in 1..MaxInput :
           StartAdapter("r1", variant, input_size)
    \/ \E v \in 0..MaxInput : ToolWrites("r1", v)
    \/ AdapterPoll("r1")
    \/ \E v \in 1..MaxInput : AdapterReturn("r1", v)

SpecAdapter == Init /\ [][NextAdapter]_vars

\* C27: no progress report of an external-tool adapter with a positive
\* total has done greater than total.
C27_Clamped ==
    \A r \in Runners :
        runner[r].kind = "adapter" =>
            \A k \in 1..Len(runner[r].reports) :
                runner[r].reports[k][2] > 0 =>
                    runner[r].reports[k][1] <= runner[r].reports[k][2]

\* C30: when an external-tool run that was polled has ended well, the
\* adapter's last progress report has done equal to total.
C30_FinalReport ==
    \A r \in Runners :
        (runner[r].kind = "adapter" /\ runner[r].pc = "complete"
            /\ runner[r].reports # <<>>) =>
            LET last == runner[r].reports[Len(runner[r].reports)]
            IN  last[1] = last[2]


\* C28: every progress callback that originates on a worker is handed to the
\* Runner's scheduler, which publishes it: when a compress job has copied a
\* source into the scratch directory in a worker and gone on to the codec,
\* the job has published the progress event of that copy before its
\* Compressing line.
C28_HandedOff ==
    \A r \in Runners :
        runner[r].kind = "compress" =>
            \A k \in 1..Len(runner[r].said) :
                runner[r].said[k].tag = "Compressing" =>
                    \E m \in 1..(k - 1) :
                        /\ runner[r].said[m].type = "progress"
                        /\ runner[r].said[m].tag = "copy"
                        /\ runner[r].said[m].file = runner[r].said[k].file


\* ------------------------------------------------------ two jobs at once
\* config.temp_dir, the one scratch directory of every job: the local input
\* and the local output of the item a compress job is working on
Scratch == {"tmp/in", "tmp/out"}

\* POST /api/compress twice: each request gets a job id of its own and its
\* Runner is started with asyncio.create_task, the first job compresses
\* a.nsp and the second b.xci, neither asks for confirmation
StartTwo(loop) ==
    /\ \A r \in Runners : runner[r].pc = "idle"
    /\ runner' =
           [r \in Runners |->
               [pc |-> "begin", job |-> IF r = "r1" THEN "j1" ELSE "j2",
                kind |-> "compress",
                files |-> IF r = "r1" THEN <<"a.nsp">> ELSE <<"b.xci">>,
                keys |-> TRUE, verify |-> FALSE, ask |-> FALSE, loop |-> loop,
                i |-> 1, compressed |-> 0, failed |-> 0, fut |-> 0,
                said |-> <<>>]]
    /\ disk' = [f \in FileNames |-> getsize(f)]
    /\ UNCHANGED <<jobs, confirmations, ws_connections, futures, tasks, sse,
                   sse_out, ws, ws_out, nextSeq, nreplies>>

\* the two Runners interleave at their awaits
NextScratch ==
    \/ \E loop \in LoopLookups : StartTwo(loop)
    \/ \E r \in Runners : CompressBegin(r)
    \/ \E r \in Runners, tool \in BOOLEAN : CompressItem(r, tool)
    \/ \E r \in Runners, up \in UploadOutcomes : CompressUpload(r, FALSE, up)
    \/ \E r \in Runners : CompressDone(r)

SpecScratch == Init /\ [][NextScratch]_vars

\* C29: no step of one job deletes a file in the scratch storage of another
\* job: while a compress job stands between its codec and its upload, with
\* its local input and output in the scratch directory, a step of the other
\* job leaves those files there.
C29_ScratchIsolated ==
    [][\A r \in Runners, o \in Runners :
          (/\ r # o
           /\ runner[o].kind = "compress" /\ runner[o].pc = "upload"
           /\ runner'[o] = runner[o]
           /\ runner'[r] # runner[r])
              => \A p \in Scratch : p \in DOMAIN disk => p \in DOMAIN disk']_vars


\* ------------------------------------------------------ copy_with_progress
MaxCopy == 9

\* a callback call that carries the size of the chunk just written
ChunkOnly(done, n) == n

\* done += len(buf)
Cumulative(done, n) == done + n

\* copy_with_progress(src, dst, on_prog): a source of `size` bytes, the
\* directory of dst there or not, a callback given or not
StartCopy(r, size, dir, on_prog) ==
    /\ runner[r].pc = "idle"
    /\ runner' = [runner EXCEPT ![r] =
           [pc |-> "open", job |-> "none", kind |-> "copy", on_prog |-> on_prog,
            total |-> 0, done |-> 0, ret |-> 0, reports |-> <<>>]]
    /\ disk' = IF dir THEN [p \in {"src", "dest/"} |-> IF p = "src" THEN size ELSE 0]
               ELSE [p \in {"src"} |-> size]
    /\ UNCHANGED <<jobs, confirmations, ws_connections, futures, tasks, sse,
                   sse_out, ws, ws_out, nextSeq, nreplies>>

\* os.makedirs(os.path.dirname(dst), exist_ok=True), total = getsize(src),
\* open(dst, "wb")
CopyOpen(r) ==
    /\ runner[r].pc = "open"
    /\ runner[r].kind = "copy"
    /\ runner' = [runner EXCEPT ![r].pc = "read", ![r].total = disk["src"]]
    /\ disk' = Put(Put(disk, "dest/", 0), "dest/dst", 0)
    /\ UNCHANGED <<jobs, confirmations, ws_connections, futures, tasks, sse,
                   sse_out, ws, ws_out, nextSeq, nreplies>>

\* one pass of `while buf := r.read(8 * 1024 * 1024)`: w.write(buf),
\* done += len(buf), `if on_prog: on_prog(done, total)`
CopyChunk(r) ==
    /\ runner[r].pc = "read"
    /\ runner[r].kind = "copy"
    /\ disk["dest/dst"] < disk["src"]
    /\ LET left == disk["src"] - disk["dest/dst"]
           n    == IF left < Chunk THEN left ELSE Chunk
           done == Cumulative(runner[r].done, n)
       IN  /\ runner' = [runner EXCEPT
                  ![r].done = done,
                  ![r].reports = IF runner[r].on_prog
                                 THEN Append(@, <<done, runner[r].total>>) ELSE @]
           /\ disk' = Put(disk, "dest/dst", disk["dest/dst"] + n)
    /\ UNCHANGED <<jobs, confirmations, ws_connections, futures, tasks, sse,
                   sse_out, ws, ws_out, nextSeq, nreplies>>

\* read() returns nothing more: `return total`
CopyReturn(r) ==
    /\ runner[r].pc = "read"
    /\ runner[r].kind = "copy"
    /\ disk["dest/dst"] = disk["src"]
    /\ runner' = [runner EXCEPT ![r].pc = "complete", ![r].ret = runner[r].total]
    /\ UNCHANGED <<disk, jobs, confirmations, ws_connections, futures, tasks, sse,
                   sse_out, ws, ws_out, nextSeq, nreplies>>

NextCopy ==
    \/ \E size \in 0..MaxCopy, dir \in BOOLEAN, on_prog \in BOOLEAN :
           StartCopy("r1", size, dir, on_prog)
    \/ CopyOpen("r1")
    \/ CopyChunk("r1")
    \/ CopyReturn("r1")

SpecCopy == Init /\ [][NextCopy]_vars

\* C31: copy_with_progress writes nothing before the directory of the
\* destination exists; the bytes_done of its callback calls are strictly
\* increasing, the k-th being the bytes of the first k chunks, every call
\* carries the size of the source as bytes_total, and when it has returned
\* the returned value is that size, the destination holds that many bytes
\* and, for a non-empty source, the last call had bytes_done equal to
\* bytes_total.
C31_CopyReports ==
    \A r \in Runners :
        runner[r].kind = "copy" =>
            LET reports == runner[r].reports
                n       == Len(reports)
            IN  /\ "dest/dst" \in DOMAIN disk => "dest/" \in DOMAIN disk
                /\ \A k \in 1..n :
                       /\ reports[k][2] = disk["src"]
                       /\ reports[k][1] > (IF k = 1 THEN 0 ELSE reports[k - 1][1])
                       /\ reports[k][1] = IF k * Chunk < disk["src"]
                                          THEN k * Chunk ELSE disk["src"]
                /\ runner[r].pc = "complete" =>
                       /\ runner[r].ret = disk["src"]
                       /\ disk["dest/dst"] = disk["src"]
                       /\ (disk["src"] > 0 /\ runner[r].on_prog) =>
                              /\ n > 0
                              /\ reports[n][1] = reports[n][2]

\* a source of three chunks, the last one short, copied into a directory
\* that was missing
C31_Witness ==
    \E r \in Runners :
        /\ runner[r].kind = "copy"
        /\ runner[r].pc = "complete"
        /\ Len(runner[r].reports) = 3
        /\ disk["src"] = 2 * Chunk + 1


\* C32: the events of a job are buffered in its queue until the pull stream
\* delivers them: before a reader has attached the queue holds every event
\* published since create_job, in emission order; with a reader attached,
\* what it has been delivered followed by what the queue still holds is
\* every event published, each once and in emission order.
C32_BufferedUntilDelivered ==
    \A j \in JobIds :
        LET all == [i \in 1..(nextSeq - 1) |-> i]
            ns(q) == [i \in 1..Len(q) |-> q[i].n]
        IN  /\ (sse.state = "idle" /\ j \in DOMAIN jobs) => ns(jobs[j]) = all
            /\ (sse.state = "open" /\ sse.job = j) => ns(sse_out \o jobs[j]) = all

\* a reader that attached with two events already in the queue has been
\* delivered the first and the second is still buffered
C32_Witness ==
    /\ sse.state = "open"
    /\ Len(sse_out) = 1
    /\ Len(jobs[sse.job]) >= 1
    /\ \A w \in WsIds : ws[w].state = "new"


\* C33: a pull stream opened with the job id a start-job route has returned
\* is never answered with the "Job not found" error: whenever the stream of
\* a started job has been served, the first thing it yielded, if anything,
\* is an event its Runner published.
C33_StreamFindsJob ==
    \A j \in JobIds :
        (sse.job = j /\ (\E r \in Runners : runner[r].job = j) /\ sse_out # <<>>)
            => Head(sse_out).n > 0


\* C34: a confirm_request becomes visible to a transport (put on the queue
\* of the pull stream, or sent to a push-stream connection) only in a step
\* after which the job's confirmation slot holds its future, and as long as
\* the confirmation is undecided the slot of a visible confirm_request keeps
\* holding it: a reply that arrives while a delivered confirm_request is
\* undecided always finds the slot and decides the confirmation.
C34_SlotBeforeRequest ==
    [][LET Queued(js)    == UNION {Seen(js[j]) : j \in DOMAIN js}
           Sent(out)     == UNION {Seen(out[w]) : w \in WsIds}
           Slot(cs, f)   == /\ futures'[f].job \in DOMAIN cs
                            /\ cs[futures'[f].job] = f
       IN  \A f \in 1..Len(futures') :
               /\ (f \in (Queued(jobs') \cup Sent(ws_out'))
                     /\ f \notin (Queued(jobs) \cup Sent(ws_out)))
                      => Slot(confirmations', f)
               /\ (f \in (Queued(jobs') \cup Sent(ws_out') \cup Seen(sse_out'))
                     /\ ~futures'[f].done)
                      => Slot(confirmations', f)
               /\ (f \in 1..Len(futures) /\ f \in SeenAnywhere
                     /\ ~futures[f].done /\ nreplies' = nreplies + 1)
                      => futures'[f].done]_vars

\* a confirm_request delivered on the pull stream and on a push-stream
\* connection has been answered, and the reply decided its confirmation
C34_Witness ==
    \E f \in 1..Len(futures) :
        /\ f \in Seen(sse_out)
        /\ \E w \in WsIds : f \in Seen(ws_out[w])
        /\ futures[f].done
        /\ futures[f].first.answers = f


\* ------------------------------------------------- a cancelled Runner
\* a finally clause that leaves the slot where it is
FinallyKeeps(cs, j) == cs

\* finally: if job_id in self.confirmations: del self.confirmations[job_id]
Finally(cs, j) == IF j \in DOMAIN cs THEN Del(cs, j) ELSE cs

\* the Runner's task is cancelled while it is suspended in `await future`:
\* the future is cancelled with it, the finally clause of
\* wait_for_confirmation runs and CancelledError, which no `except
\* Exception` of a Runner catches, ends the task without a terminal event
RunnerCancel(r) ==
    /\ runner[r].pc = "await"
    /\ confirmations' = Finally(confirmations, runner[r].job)
    /\ futures' = [futures EXCEPT ![runner[r].fut].done = TRUE]
    /\ runner' = [runner EXCEPT ![r].pc = "done", ![r].fut = 0]
    /\ UNCHANGED <<disk, jobs, ws_connections, tasks, sse, sse_out, ws, ws_out,
                   nextSeq, nreplies>>

NextCancel == Next \/ RunnerCancel("r1")

SpecCancel == Init /\ [][NextCancel]_vars

\* C35: the confirmations map holds an entry for a job exactly while a
\* Runner of the job is inside wait_for_confirmation (publishing the request
\* or suspended on its future), whether the wait ends with a reply or with
\* the cancellation of the task; a reply that arrives while no Runner of
\* the job is inside a wait finds no slot and changes no future.
C35_SlotWhileWaiting ==
    [][LET Waiting(rs, j) ==
               \E r \in Runners :
                   /\ rs[r].job = j
                   /\ \/ rs[r].pc = "await"
                      \/ rs[r].pc = "send" /\ rs[r].after = "await"
       IN  \A j \in JobIds :
               /\ j \in DOMAIN confirmations' <=> Waiting(runner', j)
               /\ (nreplies' = nreplies + 1 /\ ~Waiting(runner, j))
                      => futures' = futures]_vars

\* a Runner has been cancelled in a wait that no reply had reached, and the
\* slot is gone
C35_Witness ==
    \E r \in Runners :
        /\ runner[r].pc = "done"
        /\ runner[r].ncf > Len(runner[r].keeps)
        /\ nreplies > 0
        /\ runner[r].job \notin DOMAIN confirmations
        /\ \E f \in 1..Len(futures) : futures[f].done /\ futures[f].first = NoReply


\* C36: in an extract job the source archive leaves the drive only in the
\* step that has uploaded the extracted tree and ends with the complete
\* event; a job that has ended with an error event still has it.
C36_ArchiveKept ==
    [][\A r \in Runners :
          runner'[r].kind = "extract" =>
              /\ ("archive" \in DOMAIN disk /\ "archive" \notin DOMAIN disk') =>
                     /\ runner[r].pc = "nested"
                     /\ runner'[r].pc = "complete"
                     /\ "dest" \in DOMAIN disk'
              /\ runner'[r].pc = "error" => "archive" \in DOMAIN disk']_vars

\* a job has ended with complete after a nested round, its tree on the
\* drive and its archive removed
C36_Witness ==
    \E r \in Runners :
        /\ runner[r].kind = "extract"
        /\ runner[r].pc = "complete"
        /\ runner[r].rounds >= 1
        /\ "archive" \notin DOMAIN disk
        /\ "dest" \in DOMAIN disk


\* C37: in a compress job the step that finishes an item without counting
\* it as compressed (the item was declined, or failed at its copy, its
\* codec, its verification or its upload) leaves the item's source on the
\* drive as it was, and leaves no file at the item's destination path.
C37_FailedItemKeepsSource ==
    [][\A r \in Runners :
          (/\ runner[r].kind = "compress"
           /\ runner[r].pc \in {"item", "await", "upload"}
           /\ runner'[r].i = runner[r].i + 1
           /\ runner'[r].compressed = runner[r].compressed) =>
              LET src == runner[r].files[runner[r].i]
              IN  /\ src \in DOMAIN disk =>
                         src \in DOMAIN disk' /\ disk'[src] = disk[src]
                  /\ drive_output(src) \notin DOMAIN disk']_vars

\* a job of two files has ended with one file declined and the other
\* failed, both sources still on the drive
C37_Witness ==
    \E r \in Runners :
        /\ runner[r].kind = "compress"
        /\ runner[r].pc = "complete"
        /\ Len(runner[r].files) = 2
        /\ runner[r].failed = 1
        /\ runner[r].compressed = 0
        /\ \E k \in 1..Len(runner[r].said) : runner[r].said[k].tag = "SKIPPED"
        /\ \A k \in 1..2 : runner[r].files[k] \in DOMAIN disk
        /\ runner[r].files[1] # runner[r].files[2]


\* ------------------------------------------- a destination left by a run
\* POST /api/compress for files whose compressed form is already on the
\* drive, left there by an earlier run
StartStale(r, j, files, verify, loop) ==
    /\ runner[r].pc = "idle"
    /\ files # <<>>
    /\ runner' = [runner EXCEPT ![r] =
           [pc |-> "begin", job |-> j, kind |-> "compress", files |-> files,
            keys |-> TRUE, verify |-> verify, ask |-> FALSE, loop |-> loop, i |-> 1,
            compressed |-> 0, failed |-> 0, fut |-> 0, said |-> <<>>]]
    /\ disk' = LET srcs == {files[k] : k \in 1..Len(files)}
               IN  [f \in srcs \cup {drive_output(x) : x \in srcs} |->
                       IF f \in srcs THEN getsize(f) ELSE 1]
    /\ UNCHANGED <<jobs, confirmations, ws_connections, futures, tasks, sse,
                   sse_out, ws, ws_out, nextSeq, nreplies>>

NextStale ==
    \/ \E j \in JobIds, files \in UpTo(FileNames, MaxFiles), verify \in BOOLEAN,
          loop \in LoopLookups :
           StartStale("r1", j, files, verify, loop)
    \/ CompressBegin("r1")
    \/ \E tool \in BOOLEAN : CompressItem("r1", tool)
    \/ \E verified \in BOOLEAN, up \in UploadOutcomes :
           CompressUpload("r1", verified, up)
    \/ CompressDone("r1")
    \/ StreamerNext

SpecStale == Init /\ [][NextStale]_vars

\* C38: when an item of a compress job fails before its upload step (its
\* source is missing or its codec fails, the workers' callbacks aside), a
\* file that was at the item's destination path before the item started is
\* still there, unchanged.
C38_StaleOutputKept ==
    [][\A r \in Runners :
          (/\ runner[r].kind = "compress"
           /\ runner[r].pc = "item"
           /\ ~ThreadFails(runner[r])
           /\ runner'[r].failed = runner[r].failed + 1) =>
              LET dst == drive_output(runner[r].files[runner[r].i])
              IN  dst \in DOMAIN disk =>
                      dst \in DOMAIN disk' /\ disk'[dst] = disk[dst]]_vars


\* ----------------------------------------------- a name already taken
\* POST /api/organize for files of a directory that also holds T.nsp and
\* T.xci, files the request does not list
StartClash(r, j, files, infos) ==
    /\ runner[r].pc = "idle"
    /\ runner' = [runner EXCEPT ![r] =
           [pc |-> "begin", job |-> j, kind |-> "organize", files |-> files,
            infos |-> infos, i |-> 1, plan |-> <<>>, fut |-> 0, success |-> 0,
            fail |-> 0, said |-> <<>>]]
    /\ disk' = [f \in {files[k] : k \in 1..Len(files)} \cup {"T.nsp", "T.xci"} |->
                   IF f \in {"T.nsp", "T.xci"} THEN 3 ELSE getsize(f)]
    /\ UNCHANGED <<jobs, confirmations, ws_connections, futures, tasks, sse,
                   sse_out, ws, ws_out, nextSeq, nreplies>>

NextClash ==
    \/ \E j \in JobIds, files \in UpTo(FileNames, MaxFiles) :
           \E infos \in [1..Len(files) -> Infos] : StartClash("r1", j, files, infos)
    \/ OrganizeBegin("r1")
    \/ OrganizeFile("r1")
    \/ OrganizeAsk("r1")
    \/ OrganizeResume("r1")
    \/ TaskNext
    \/ StreamerNext
    \/ HttpNext

SpecClash == Init /\ [][NextClash]_vars

\* C39: executing an accepted rename plan loses no file: the new paths of
\* the plan are pairwise distinct, no rename goes onto a path where a file
\* is, and the drive holds as many files afterwards as before.
C39_RenameLosesNothing ==
    [][\A r \in Runners :
          (/\ runner[r].kind = "organize"
           /\ runner[r].pc = "await"
           /\ runner'[r].pc = "done") =>
              LET plan == runner[r].plan
              IN  /\ \A a, b \in 1..Len(plan) :
                         (a # b /\ plan[a].old # plan[b].old) => plan[a].new # plan[b].new
                  /\ Cardinality(DOMAIN disk') = Cardinality(DOMAIN disk)]_vars


\* ------------------------------------------- ProgressUI confirmations
\* The worker thread of the CLI compress plugin (r1) calls
\* request_confirmation for one item after the other; the notebook's main
\* thread (r2) runs run_loop and holds the ProgressUI fields both use.
MaxRequests == 3

\* ProgressUI(...).run_loop entered and the worker started
StartUi ==
    /\ \A r \in Runners : runner[r].pc = "idle"
    /\ runner' =
           [r \in Runners |->
               IF r = "r1"
               THEN [pc |-> "work", job |-> "none", kind |-> "worker", req |-> 0,
                     returned |-> <<>>]
               ELSE [pc |-> "loop", job |-> "none", kind |-> "run_loop",
                     confirm_request |-> 0, confirm_response |-> "None",
                     confirm_event |-> FALSE, shown |-> 0, clicks |-> <<>>]]
    /\ UNCHANGED <<disk, jobs, confirmations, ws_connections, futures, tasks, sse,
                   sse_out, ws, ws_out, nextSeq, nreplies>>

\* request_confirmation up to its wait: the request stored, the response
\* reset, the event cleared
request_confirmation ==
    /\ runner["r1"].kind = "worker"
    /\ runner["r1"].pc = "work"
    /\ runner["r1"].req < MaxRequests
    /\ runner' = [runner EXCEPT
           !["r1"].pc = "wait", !["r1"].req = @ + 1,
           !["r2"].confirm_request = runner["r1"].req + 1,
           !["r2"].confirm_response = "None",
           !["r2"].confirm_event = FALSE]
    /\ UNCHANGED <<disk, jobs, confirmations, ws_connections, futures, tasks, sse,
                   sse_out, ws, ws_out, nextSeq, nreplies>>

\* _confirm_event.wait(timeout=300) returns True: `return
\* self._confirm_response or False`
ConfirmWakes ==
    /\ runner["r1"].kind = "worker"
    /\ runner["r1"].pc = "wait"
    /\ runner["r2"].confirm_event
    /\ runner' = [runner EXCEPT
           !["r1"].pc = "work",
           !["r1"].returned = Append(@, <<runner["r1"].req,
                                          runner["r2"].confirm_response = "True">>)]
    /\ UNCHANGED <<disk, jobs, confirmations, ws_connections, futures, tasks, sse,
                   sse_out, ws, ws_out, nextSeq, nreplies>>

\* the wait times out with the event not set: `return False`
ConfirmTimeout ==
    /\ runner["r1"].kind = "worker"
    /\ runner["r1"].pc = "wait"
    /\ ~runner["r2"].confirm_event
    /\ runner' = [runner EXCEPT
           !["r1"].pc = "work",
           !["r1"].returned = Append(@, <<runner["r1"].req, FALSE>>)]
    /\ UNCHANGED <<disk, jobs, confirmations, ws_connections, futures, tasks, sse,
                   sse_out, ws, ws_out, nextSeq, nreplies>>

\* run_loop finds a request: it takes it and shows its dialog
UiTake ==
    /\ runner["r2"].kind = "run_loop"
    /\ runner["r2"].pc = "loop"
    /\ runner["r2"].confirm_request # 0
    /\ runner' = [runner EXCEPT
           !["r2"].pc = "dialog",
           !["r2"].shown = runner["r2"].confirm_request,
           !["r2"].confirm_request = 0]
    /\ UNCHANGED <<disk, jobs, confirmations, ws_connections, futures, tasks, sse,
                   sse_out, ws, ws_out, nextSeq, nreplies>>

\* the user presses Keep or Discard in the dialog on display: on_keep or
\* on_discard, the poll loop ends, the dialog is hidden, _confirm_event.set()
UiClick(keep) ==
    /\ runner["r2"].kind = "run_loop"
    /\ runner["r2"].pc = "dialog"
    /\ runner' = [runner EXCEPT
           !["r2"].pc = "loop",
           !["r2"].confirm_response = IF keep THEN "True" ELSE "False",
           !["r2"].confirm_event = TRUE,
           !["r2"].clicks = Append(@, <<runner["r2"].shown, keep>>)]
    /\ UNCHANGED <<disk, jobs, confirmations, ws_connections, futures, tasks, sse,
                   sse_out, ws, ws_out, nextSeq, nreplies>>

NextUi ==
    \/ StartUi
    \/ request_confirmation
    \/ ConfirmWakes
    \/ ConfirmTimeout
    \/ UiTake
    \/ \E keep \in BOOLEAN : UiClick(keep)

SpecUi == Init /\ [][NextUi]_vars

\* C40: request_confirmation returns true only if the user pressed Keep in
\* the dialog shown for that same request: a click on the dialog of a request
\* that has timed out is never taken as the answer to a later request.
C40_AnswerOfOwnDialog ==
    runner["r1"].kind = "worker" =>
        \A k \in 1..Len(runner["r1"].returned) :
            LET ret == runner["r1"].returned[k]
            IN  ret[2] => \E c \in 1..Len(runner["r2"].clicks) :
                              runner["r2"].clicks[c] = <<ret[1], TRUE>>

====
